---- MODULE Spec2Model ----
(***************************************************************************)
(* Chunking and evidence-retrieval engine of rag_benchmark_suite.          *)
(*                                                                         *)
(*   Benchmark/embedding/embedder.py       SimpleTextEmbedder.embed        *)
(*   Benchmark/embedding/vector_index.py   InMemoryVectorIndex             *)
(*   Benchmark/services/retrieval_service.py                               *)
(*                                         RetrievalService.retrieve_generous *)
(*   Benchmark/ingestion/chunker.py        Chunker                         *)
(*                                                                         *)
(* Texts are modelled as the list of their word tokens.  A similarity      *)
(* score is the exact rational cos^2 scaled by ScoreScale: the embedder's  *)
(* term counts are non-negative, so cos >= 0 and cos^2 orders scores (and  *)
(* ties them) exactly as cos does over the reals.  Floating-point rounding *)
(* of the Python floats is not modelled.                                   *)
(***************************************************************************)
EXTENDS Integers, Sequences, FiniteSets, TLC

VARIABLES
    question,   \* retrieve_generous argument: the query text
    chunks,     \* retrieve_generous argument: list[Chunk]
    config,     \* AppConfig fields read by retrieve_generous
    scored,     \* local `scored`: the full ranked list of <<chunk, score>>
    seeded,     \* local `selected` after the top-k / neighbour loop (ordered dict)
    selected,   \* local `selected` after the threshold walk (ordered dict)
    result,     \* the returned list[EvidenceCandidate]
    pc,         \* "call" before retrieve_generous has run, "done" after
    args,       \* the arguments Chunker(...) is constructed with
    doc_text,   \* chunk_text argument `text`, as the tokens text.split() yields
    chunker,    \* the Chunker object, or the error its construction raised
    tokens,     \* chunk_text local `tokens`
    emitted,    \* chunk_text local `chunks`, the list it returns
    idx,        \* chunk_text local `idx`
    chunk_index,\* chunk_text local `chunk_index`
    cpc,        \* where the chunker is: "new", "raised", "ready", "loop", "done"
    corpus,     \* the chunk files under chunks_root: path -> text, or Absent
    outdir,     \* the output directory: chunks.faiss, chunks_metadata.jsonl,
                \*   index_manifest.json
    api_key,    \* whether OPENAI_API_KEY is set in the environment
    libs,       \* whether numpy, faiss and openai can be imported
    bargs,      \* build_faiss_index arguments: batch_size, metric, overwrite
    run,        \* how many builds have been started (stands for the clock
                \*   that created_at is read from)
    build,      \* build_faiss_index locals: files, rows, texts, batches,
                \*   vectors, index, and the error it raised
    bpc,        \* where the build is
    svc,        \* the RetrievalService fields of the persistent-index path
    ret,        \* the last call on the service: arguments, locals and outcome
    disk_reads, \* every chunk_path.read_text() made by the service, in order
    pargs,      \* EvidenceProposer.propose arguments: retrieval_candidates,
                \*   max_candidates
    proposed,   \* the list propose returned
    ppc,        \* "call" before propose has run, "done" after
    chunk_files,\* the chunk files under config.chunk_dir: path -> text, or Absent
    pdfs,       \* the paper ids that have a PDF in config.corpus_dir
    text_cache, \* the files under config.text_cache_dir: paper id -> text
    chunk_manifest, \* config.chunk_dir / "manifest.json"
    events,     \* AuditLog.events of the PipelineService
    pret,       \* the last call on the chunk store or the pipeline
    index_rows, \* InMemoryVectorIndex._rows
    found,      \* the last InMemoryVectorIndex.search: arguments and result
    caller,     \* the concurrent callers of one RetrievalService: where each
                \*   is inside the call, and its locals
    inits,      \* how often faiss.read_index has been run on the service
    data_dir,   \* the data directory: question_id_counter.txt and the ids in
                \*   the two question files
    allocators, \* the QuestionIdAllocator instances: _current_id of each
    issued      \* every id next_id has returned, in order

retrievalVars == <<question, chunks, config, scored, seeded, selected, result, pc>>

chunkerVars == <<args, doc_text, chunker, tokens, emitted, idx, chunk_index, cpc>>

envVars == <<corpus, outdir, api_key, libs>>

builderVars == <<bargs, run, build, bpc>>

faissVars == <<svc, ret, disk_reads>>

proposerVars == <<pargs, proposed, ppc>>

storeVars == <<chunk_files, pdfs, text_cache, chunk_manifest, events, pret>>

indexVars == <<index_rows, found>>

raceVars == <<caller, inits>>

allocVars == <<data_dir, allocators, issued>>

vars == <<retrievalVars, chunkerVars, envVars, builderVars, faissVars, proposerVars,
          storeVars, indexVars, raceVars, allocVars>>

\* ---------------------------------------------------------------- bounds
MaxChunks == 3      \* chunk indices of one document range over 0..MaxChunks-1
MaxTopK == 2        \* retrieval_top_k ranges over -1..MaxTopK
MaxCap == 3         \* retrieval_cap ranges over -1..MaxCap
MaxTokens == 12     \* a text has 0..MaxTokens tokens
MaxSize == 4        \* chunk_size_tokens and chunk_overlap_tokens range over
MaxNeg == 2         \*   -MaxNeg..MaxSize
MaxFiles == 2       \* chunk files 0..MaxFiles-1 of one paper, one of another
MaxBatch == 2       \* --batch-size ranges over 0..MaxBatch
MaxCands == 3       \* a candidate list has 0..MaxCands entries
MaxAllocators == 2  \* QuestionIdAllocator instances on one data directory
MaxIssued == 4      \* next_id calls in one run

\* ------------------------------------------------------- Python built-ins
Max(a, b) == IF a >= b THEN a ELSE b

Min(a, b) == IF a <= b THEN a ELSE b

\* A slice bound as Python normalises it: negative bounds count from the end,
\* and the bound is clamped to 0..n.
PyBound(i, n) == IF i < 0 THEN Max(i + n, 0) ELSE Min(i, n)

\* s[lo:hi]
PySlice(s, lo, hi) ==
    LET a == PyBound(lo, Len(s))
        b == PyBound(hi, Len(s))
    IN  IF a >= b THEN <<>> ELSE SubSeq(s, a + 1, b)

\* sorted(pairs, key=lambda x: x[1], reverse=True): the sort is stable, and
\* reverse=True keeps elements with equal keys in their original order.
RECURSIVE InsertDesc(_, _)
InsertDesc(sorted, x) ==
    IF sorted = <<>> THEN <<x>>
    ELSE IF Head(sorted)[2] >= x[2]
         THEN <<Head(sorted)>> \o InsertDesc(Tail(sorted), x)
         ELSE <<x>> \o sorted

RECURSIVE SortDesc(_)
SortDesc(pairs) ==
    IF pairs = <<>> THEN <<>>
    ELSE InsertDesc(SortDesc(SubSeq(pairs, 1, Len(pairs) - 1)), pairs[Len(pairs)])

\* d[k] = v on an insertion-ordered dict held as a list of <<key, value>>:
\* an existing key keeps its position, a new key goes last.
DictSet(d, k, v) ==
    IF \E i \in DOMAIN d : d[i][1] = k
    THEN [i \in DOMAIN d |-> IF d[i][1] = k THEN <<k, v>> ELSE d[i]]
    ELSE Append(d, <<k, v>>)

Keys(d) == {d[i][1] : i \in DOMAIN d}

\* ------------------------------------------------------------- chunk ids
RECURSIVE Digits(_)
Digits(n) == IF n < 10 THEN <<n>> ELSE Digits(n \div 10) \o <<n % 10>>

\* f"{n:04d}" for n >= 0, as the sequence of its decimal digits: zero-padded
\* to width 4, longer when n has more than 4 digits.
Fmt04d(n) ==
    LET d == Digits(n)
    IN  IF Len(d) >= 4 THEN d ELSE [i \in 1..(4 - Len(d)) |-> 0] \o d

\* f"{paper_id}_chunk_{n:04d}": the paper id and the formatted digits (the
\* infix "_chunk_" is the same in every id).
ChunkId(paper_id, n) == <<paper_id, Fmt04d(n)>>

\* int(digits)
RECURSIVE ParseInt(_)
ParseInt(d) ==
    IF d = <<>> THEN 0 ELSE 10 * ParseInt(SubSeq(d, 1, Len(d) - 1)) + d[Len(d)]

Chunk(paper_id, n, text) ==
    [chunk_id |-> ChunkId(paper_id, n), paper_id |-> paper_id,
     text |-> text, index |-> n]

\* ------------------------------------------------------------- embedder
\* Scores are cos^2 * ScoreScale; every norm product of the texts below
\* divides it.
ScoreScale == 4 * 100

\* str.lower() on the tokens used here
Lower(w) == CASE w = "A" -> "a" [] w = "B" -> "b" [] OTHER -> w

RECURSIVE SumSq(_, _)
SumSq(counts, ks) ==
    IF ks = {} THEN 0
    ELSE LET k == CHOOSE x \in ks : TRUE
         IN  counts[k] * counts[k] + SumSq(counts, ks \ {k})

\* SimpleTextEmbedder.embed: lower-cased word counts and the L2 norm they are
\* divided by (kept squared; `or 1.0` replaces a zero norm by 1).
embed(text) ==
    LET words == [i \in DOMAIN text |-> Lower(text[i])]
        keys == {words[i] : i \in DOMAIN words}
        counts == [k \in keys |-> Cardinality({i \in DOMAIN words : words[i] = k})]
        sq == SumSq(counts, keys)
    IN  [counts |-> counts, norm2 |-> IF sq = 0 THEN 1 ELSE sq]

RECURSIVE Dot(_, _, _)
Dot(a, b, ks) ==
    IF ks = {} THEN 0
    ELSE LET k == CHOOSE x \in ks : TRUE
         IN  a.counts[k] * (IF k \in DOMAIN b.counts THEN b.counts[k] ELSE 0)
             + Dot(a, b, ks \ {k})

\* InMemoryVectorIndex._cosine: the dot product over the keys of the smaller
\* vector, b.get(k, 0.0) for the other.
cosine(a, b) ==
    LET small == IF Cardinality(DOMAIN a.counts) > Cardinality(DOMAIN b.counts) THEN b ELSE a
        large == IF Cardinality(DOMAIN a.counts) > Cardinality(DOMAIN b.counts) THEN a ELSE b
        dot == Dot(small, large, DOMAIN small.counts)
    IN  (dot * dot * ScoreScale) \div (a.norm2 * b.norm2)

\* ------------------------------------------------- InMemoryVectorIndex
add(rows, chunk) == Append(rows, <<chunk, embed(chunk.text)>>)

RECURSIVE AddAll(_, _)
AddAll(rows, cs) == IF cs = <<>> THEN rows ELSE AddAll(add(rows, Head(cs)), Tail(cs))

\* Fault: rows of equal score come out in the reverse of the order of adding.
SearchTiesReversed(rows, query, limit) ==
    LET q == embed(query)
        all == [i \in DOMAIN rows |->
                   <<rows[Len(rows) + 1 - i][1], cosine(q, rows[Len(rows) + 1 - i][2])>>]
    IN  PySlice(SortDesc(all), 0, limit)

search(rows, query, limit) ==
    LET q == embed(query)
        all == [i \in DOMAIN rows |-> <<rows[i][1], cosine(q, rows[i][2])>>]
    IN  PySlice(SortDesc(all), 0, limit)

\* ---------------------------------------------------- retrieve_generous
\* by_id = {chunk.chunk_id: (chunk, score) for chunk, score in scored}
by_id(sc) ==
    [cid \in {sc[i][1].chunk_id : i \in DOMAIN sc} |->
        sc[CHOOSE i \in DOMAIN sc :
              /\ sc[i][1].chunk_id = cid
              /\ \A j \in DOMAIN sc : sc[j][1].chunk_id = cid => j <= i]]

\* Fault: the seeds are one fewer than top_k.
TopHitsOneShort(sc, top_k) == PySlice(sc, 0, top_k - 1)

\* top_hits = scored[: retrieval_top_k]
TopHits(sc, top_k) == PySlice(sc, 0, top_k)

\* Fault: the neighbour is given the score of the hit it was found from.
AddNeighborSeedScore(sel, chunk, neighbor_idx, byId) ==
    IF neighbor_idx < 0 THEN sel
    ELSE LET neighbor_id == ChunkId(chunk.paper_id, neighbor_idx)
         IN  IF neighbor_id \in DOMAIN byId
             THEN DictSet(sel, neighbor_id, byId[chunk.chunk_id][2])
             ELSE sel

\* Fault: `neighbor_idx <= 0` skips the neighbour with index 0.
AddNeighborSkipZero(sel, chunk, neighbor_idx, byId) ==
    IF neighbor_idx <= 0 THEN sel
    ELSE LET neighbor_id == ChunkId(chunk.paper_id, neighbor_idx)
         IN  IF neighbor_id \in DOMAIN byId
             THEN DictSet(sel, neighbor_id, byId[neighbor_id][2])
             ELSE sel

\* One pass of the inner loop over (chunk.index - 1, chunk.index + 1).
AddNeighbor(sel, chunk, neighbor_idx, byId) ==
    IF neighbor_idx < 0 THEN sel
    ELSE LET neighbor_id == ChunkId(chunk.paper_id, neighbor_idx)
         IN  IF neighbor_id \in DOMAIN byId
             THEN DictSet(sel, neighbor_id, byId[neighbor_id][2])
             ELSE sel

\* for chunk, score in top_hits: ...
RECURSIVE SeedLoop(_, _, _)
SeedLoop(sel, hits, byId) ==
    IF hits = <<>> THEN sel
    ELSE LET chunk == Head(hits)[1]
             score == Head(hits)[2]
             s0 == DictSet(sel, chunk.chunk_id, score)
             s1 == AddNeighbor(s0, chunk, chunk.index - 1, byId)
             s2 == AddNeighbor(s1, chunk, chunk.index + 1, byId)
         IN  SeedLoop(s2, Tail(hits), byId)

\* Fault: `score > threshold` misses a chunk scoring exactly the threshold.
RECURSIVE WalkLoopStrict(_, _, _, _)
WalkLoopStrict(sel, sc, threshold, cap) ==
    IF sc = <<>> THEN sel
    ELSE LET chunk == Head(sc)[1]
             score == Head(sc)[2]
             s1 == IF score > threshold THEN DictSet(sel, chunk.chunk_id, score) ELSE sel
         IN  IF Len(s1) >= cap THEN s1 ELSE WalkLoopStrict(s1, Tail(sc), threshold, cap)

\* for chunk, score in scored: add when score >= threshold; break when the
\* selection holds cap entries (tested after each visit).
RECURSIVE WalkLoop(_, _, _, _)
WalkLoop(sel, sc, threshold, cap) ==
    IF sc = <<>> THEN sel
    ELSE LET chunk == Head(sc)[1]
             score == Head(sc)[2]
             s1 == IF score >= threshold THEN DictSet(sel, chunk.chunk_id, score) ELSE sel
         IN  IF Len(s1) >= cap THEN s1 ELSE WalkLoop(s1, Tail(sc), threshold, cap)

\* Fault: the slice [: retrieval_cap] is missing.
RankSelectedUncut(sel, cap) == SortDesc(sel)

\* Fault: reverse=True is missing, the lowest scores come first.
RankSelectedAscending(sel, cap) ==
    LET s == SortDesc(sel)
    IN  PySlice([i \in DOMAIN s |-> s[Len(s) + 1 - i]], 0, cap)

\* sorted(selected.items(), key=lambda x: x[1], reverse=True)[: retrieval_cap]
RankSelected(sel, cap) == PySlice(SortDesc(sel), 0, cap)

\* Fault: rank=i, the 0-based position.
CandidatesZeroBased(ranked) ==
    [i \in DOMAIN ranked |->
        [chunk_id |-> ranked[i][1], score |-> ranked[i][2], rank |-> i - 1]]

\* [EvidenceCandidate(chunk_id=cid, score=float(score), rank=i + 1) for i, ... in enumerate(ranked)]
Candidates(ranked) ==
    [i \in DOMAIN ranked |->
        [chunk_id |-> ranked[i][1], score |-> ranked[i][2], rank |-> (i - 1) + 1]]

\* ------------------------------------------------------------ the inputs
PaperId == "p"

\* Chunk texts and questions, as token lists.
ChunkTexts == {<<"a">>, <<"A", "b">>, <<"b">>}

Questions == {<<"a">>, <<"a", "b">>}

\* retrieval_threshold on the score scale (t^2 * ScoreScale for t >= 0):
\* the default 0.15, 1/sqrt(2), and a value above every score.
ThresholdDefault == (15 * 15 * ScoreScale) \div (100 * 100)

ThresholdUnreachable == ScoreScale + 1

Thresholds == {ThresholdDefault, ScoreScale \div 2, ThresholdUnreachable}

\* The chunks of one document that are present, in ascending index order (the
\* order ChunkStore.read_chunks and Chunker.chunk_text deliver).
RECURSIVE ChunkList(_, _, _)
ChunkList(texts, n, upto) ==
    IF n >= upto THEN <<>>
    ELSE (IF texts[n] = <<"absent">> THEN <<>> ELSE <<Chunk(PaperId, n, texts[n])>>)
         \o ChunkList(texts, n + 1, upto)

\* ----------------------------------------- optional values, files, pins
\* Python None, and a value that is not None.
None == [none |-> TRUE]

Some(v) == [none |-> FALSE, val |-> v]

\* d.get(k) on an insertion-ordered dict held as a list of <<key, value>>.
DictGet(d, k) ==
    IF \E i \in DOMAIN d : d[i][1] = k
    THEN Some(d[CHOOSE i \in DOMAIN d : d[i][1] = k][2])
    ELSE None

\* A path at which no file exists, a chunk file that does not exist.
NoFile == [exists |-> FALSE]

Absent == <<"absent">>

\* chunks_root / paper_id / f"{paper_id}_chunk_{n:04d}.txt"
ChunkPath(paper_id, n) == [paper_id |-> paper_id, stem |-> ChunkId(paper_id, n)]

\* The chunk files that may exist: MaxFiles chunks of paper "p", one of "q".
ChunkPaths == {ChunkPath("p", n) : n \in 0..(MaxFiles - 1)} \cup {ChunkPath("q", 0)}

EmptyDir == [index |-> NoFile, metadata |-> NoFile, manifest |-> NoFile]

\* parse_args defaults of --batch-size, --metric, --overwrite
DefaultArgs == [batch_size |-> 64, metric |-> "cosine", overwrite |-> FALSE]

NoLocals ==
    [files |-> <<>>, rows |-> <<>>, texts |-> <<>>, batches |-> <<>>, idx |-> 0,
     vectors |-> <<>>, index |-> None, error |-> None]

\* The chunk ids of the chunk files, and one no chunk file has.
CandidateIds == {path.stem : path \in ChunkPaths} \cup {ChunkId("q", 1)}

\* self._chunk_text_cache = {}: chunk_id -> the cached text, None without one.
EmptyCache == [chunk_id \in CandidateIds |-> None]

\* RetrievalService.__init__: nothing of the persistent index is loaded.
NewService ==
    [faiss_index |-> None, faiss |-> None, np |-> None, openai_client |-> None,
     faiss_rows_by_id |-> None, faiss_rows_by_chunk_id |-> None,
     faiss_metric |-> "cosine", chunk_text_cache |-> EmptyCache,
     faiss_error |-> None]

NoCall == [op |-> "none"]

\* No chunk file has been read: path -> the texts read from it, in order.
NoReads == [path \in ChunkPaths |-> <<>>]

NoIndexFiles ==
    /\ corpus = [path \in ChunkPaths |-> Absent]
    /\ outdir = EmptyDir
    /\ api_key = FALSE
    /\ libs = FALSE

NoBuild ==
    /\ bargs = DefaultArgs
    /\ run = 0
    /\ build = NoLocals
    /\ bpc = "idle"

NoService ==
    /\ svc = NewService
    /\ ret = NoCall
    /\ disk_reads = NoReads

\* def propose(self, retrieval_candidates, max_candidates: int = 3)
NoProposal ==
    /\ pargs = [retrieval_candidates |-> <<>>, max_candidates |-> 3]
    /\ proposed = <<>>
    /\ ppc = "call"

\* The chunk files of one document that the model follows: the first
\* MaxChunks, and the two on either side of the fifth digit.
StoreIndexes == 0..(MaxChunks - 1) \cup {9999, 10000}

StorePaths == {ChunkPath(PaperId, n) : n \in StoreIndexes}

NoChunkFiles == [path \in StorePaths |-> Absent]

Papers == {"p", "q"}

NoStore ==
    /\ chunk_files = NoChunkFiles
    /\ pdfs = {}
    /\ text_cache = [paper_id \in Papers |-> Absent]
    /\ chunk_manifest = NoFile
    /\ events = <<>>
    /\ pret = NoCall

NoIndex ==
    /\ index_rows = <<>>
    /\ found = NoCall

Callers == {1, 2}

NoCallers ==
    /\ caller = [t \in Callers |-> [pc |-> "idle"]]
    /\ inits = 0

NoAllocator ==
    /\ data_dir = [counter |-> NoFile, verified |-> <<>>, unverified |-> <<>>]
    /\ allocators = <<>>
    /\ issued = <<>>

Idle ==
    /\ scored = <<>>
    /\ seeded = <<>>
    /\ selected = <<>>
    /\ result = <<>>
    /\ pc = "call"

\* No Chunker has been constructed.
NoChunker ==
    /\ chunker = [state |-> "none"]
    /\ tokens = <<>>
    /\ emitted = <<>>
    /\ idx = 0
    /\ chunk_index = 0
    /\ cpc = "new"

InitAny ==
    /\ question \in Questions
    /\ \E texts \in [0..(MaxChunks - 1) -> ChunkTexts \cup {<<"absent">>}] :
          chunks = ChunkList(texts, 0, MaxChunks)
    /\ config \in [retrieval_top_k : (0 - 1)..MaxTopK,
                   retrieval_threshold : Thresholds,
                   retrieval_cap : (0 - 1)..MaxCap]
    /\ Idle

\* 6 chunks indexed 0..5 in one document, top_k = 1, a threshold no chunk
\* reaches, cap = 5.
InitExample ==
    /\ question \in Questions
    /\ \E texts \in [0..5 -> ChunkTexts] : chunks = ChunkList(texts, 0, 6)
    /\ config = [retrieval_top_k |-> 1,
                 retrieval_threshold |-> ThresholdUnreachable,
                 retrieval_cap |-> 5]
    /\ Idle

Init ==
    /\ InitAny \/ InitExample
    /\ args = [chunk_size_tokens |-> 1, chunk_overlap_tokens |-> 0]
    /\ doc_text = <<>>
    /\ NoChunker
    /\ NoIndexFiles
    /\ NoBuild
    /\ NoService
    /\ NoStore
    /\ NoIndex
    /\ NoCallers
    /\ NoAllocator
    /\ NoProposal

\* RetrievalService.retrieve_generous(question, chunks)
retrieve_generous ==
    /\ pc = "call"
    /\ LET rows == AddAll(<<>>, chunks)
           sc == search(rows, question, Max(Len(chunks), config.retrieval_cap))
           byId == by_id(sc)
           top_hits == TopHits(sc, config.retrieval_top_k)
           s1 == SeedLoop(<<>>, top_hits, byId)
           s2 == WalkLoop(s1, sc, config.retrieval_threshold, config.retrieval_cap)
           ranked == RankSelected(s2, config.retrieval_cap)
       IN  /\ scored' = sc
           /\ seeded' = s1
           /\ selected' = s2
           /\ result' = Candidates(ranked)
    /\ pc' = "done"
    /\ UNCHANGED <<question, chunks, config>>
    /\ UNCHANGED chunkerVars
    /\ UNCHANGED <<envVars, builderVars, faissVars, proposerVars>>
    /\ UNCHANGED <<storeVars, indexVars, raceVars, allocVars>>

Next == retrieve_generous

Spec == Init /\ [][Next]_vars

\* -------------------------------------------------------------- Chunker
\* A text of n tokens; the chunker never looks inside a token, so the n-th
\* token is the word "w<n>" and a window's text tells where it was taken.
Word(n) == "w" \o ToString(n)

TextOf(n) == [i \in 1..n |-> Word(i)]

\* Fault: `>` lets overlap = size through.
RejectsOnlyGreater(size, overlap) == overlap > size

\* if chunk_overlap_tokens >= chunk_size_tokens: raise ValueError(...)
Rejects(size, overlap) == overlap >= size

\* tokens[idx : idx + self.chunk_size_tokens]
Segment(toks, i, size) == PySlice(toks, i, i + size)

\* Fault: `>` does not stop at a window that ends exactly at the last token.
BreaksOnlyBeyond(i, size, n) == i + size > n

\* if idx + self.chunk_size_tokens >= len(tokens): break
Breaks(i, size, n) == i + size >= n

\* Fault: chunk_index is not advanced.
NextChunkIndexStuck(k) == k

\* chunk_index += 1
NextChunkIndex(k) == k + 1

InitChunker ==
    /\ args \in [chunk_size_tokens : (0 - MaxNeg)..MaxSize,
                 chunk_overlap_tokens : (0 - MaxNeg)..MaxSize]
    /\ \E n \in 0..MaxTokens : doc_text = TextOf(n)
    /\ NoChunker
    /\ question = <<>>
    /\ chunks = <<>>
    /\ config = [retrieval_top_k |-> 8,
                 retrieval_threshold |-> ThresholdDefault,
                 retrieval_cap |-> 25]
    /\ Idle
    /\ NoIndexFiles
    /\ NoBuild
    /\ NoService
    /\ NoStore
    /\ NoIndex
    /\ NoCallers
    /\ NoAllocator
    /\ NoProposal

\* Chunker.__init__(chunk_size_tokens, chunk_overlap_tokens)
Chunker_init ==
    /\ cpc = "new"
    /\ IF Rejects(args.chunk_size_tokens, args.chunk_overlap_tokens)
       THEN /\ chunker' = [state |-> "ValueError"]
            /\ cpc' = "raised"
       ELSE /\ chunker' = [state |-> "ok",
                           chunk_size_tokens |-> args.chunk_size_tokens,
                           chunk_overlap_tokens |-> args.chunk_overlap_tokens]
            /\ cpc' = "ready"
    /\ UNCHANGED <<args, doc_text, tokens, emitted, idx, chunk_index>>
    /\ UNCHANGED retrievalVars
    /\ UNCHANGED <<envVars, builderVars, faissVars, proposerVars>>
    /\ UNCHANGED <<storeVars, indexVars, raceVars, allocVars>>

\* Chunker.chunk_text(paper_id, text), up to the first test of the while loop.
chunk_text_enter ==
    /\ cpc = "ready"
    /\ tokens' = doc_text
    /\ emitted' = <<>>
    /\ idx' = 0
    /\ chunk_index' = 0
    /\ cpc' = IF doc_text = <<>> THEN "done"
              ELSE IF 0 < Len(doc_text) THEN "loop" ELSE "done"
    /\ UNCHANGED <<args, doc_text, chunker>>
    /\ UNCHANGED retrievalVars
    /\ UNCHANGED <<envVars, builderVars, faissVars, proposerVars>>
    /\ UNCHANGED <<storeVars, indexVars, raceVars, allocVars>>

\* One pass of the while loop of chunk_text, and the test that follows it.
chunk_text_iterate ==
    /\ cpc = "loop"
    /\ LET size == chunker.chunk_size_tokens
           step == chunker.chunk_size_tokens - chunker.chunk_overlap_tokens
           segment == Segment(tokens, idx, size)
       IN  /\ emitted' = Append(emitted, Chunk(PaperId, chunk_index, segment))
           /\ IF Breaks(idx, size, Len(tokens))
              THEN /\ cpc' = "done"
                   /\ UNCHANGED <<idx, chunk_index>>
              ELSE /\ idx' = idx + step
                   /\ chunk_index' = NextChunkIndex(chunk_index)
                   /\ cpc' = IF idx + step < Len(tokens) THEN "loop" ELSE "done"
    /\ UNCHANGED <<args, doc_text, chunker, tokens>>
    /\ UNCHANGED retrievalVars
    /\ UNCHANGED <<envVars, builderVars, faissVars, proposerVars>>
    /\ UNCHANGED <<storeVars, indexVars, raceVars, allocVars>>

NextChunker == Chunker_init \/ chunk_text_enter \/ chunk_text_iterate

SpecChunker == InitChunker /\ [][NextChunker]_vars

\* ------------------------------------------------ persistent index builder
\* The code point of the letter a paper id consists of.
Ord(c) == CASE c = "p" -> 112 [] c = "q" -> 113 [] OTHER -> 0

\* a < b for strings, as lists of code points: the first difference decides,
\* and a proper prefix comes first.
RECURSIVE LexLess(_, _)
LexLess(a, b) ==
    IF b = <<>> THEN FALSE
    ELSE IF a = <<>> THEN TRUE
    ELSE IF Head(a) # Head(b) THEN Head(a) < Head(b)
    ELSE LexLess(Tail(a), Tail(b))

\* What Path.__lt__ compares: the directory name, then the file name
\* "<paper>_chunk_<digits>.txt" (the infix is the same in every name, and
\* "." sorts before every digit, as the end of a list does).
PathKey(path) == <<Ord(path.paper_id), Ord(path.stem[1])>> \o path.stem[2]

\* sorted(paths)
RECURSIVE SortedPaths(_)
SortedPaths(S) ==
    IF S = {} THEN <<>>
    ELSE LET first == CHOOSE x \in S :
                          \A y \in S \ {x} : LexLess(PathKey(x), PathKey(y))
         IN  <<first>> \o SortedPaths(S \ {first})

\* sorted(chunks_root.glob("*/*_chunk_*.txt"))
discover_chunks(c) == SortedPaths({path \in DOMAIN c : c[path] # Absent})

\* Fault: faiss_id counts from 1.
ChunkRowOneBased(i, path) ==
    [faiss_id |-> i, paper_id |-> path.paper_id, chunk_id |-> path.stem,
     file_path |-> path]

\* ChunkRow(faiss_id=i, paper_id=path.parent.name, chunk_id=path.stem,
\*          file_path=str(path.resolve())) for the i-th file of enumerate(files),
\* i counted here from 1 as the positions of a list are.
ChunkRow(i, path) ==
    [faiss_id |-> i - 1, paper_id |-> path.paper_id, chunk_id |-> path.stem,
     file_path |-> path]

chunk_rows_from_files(files, c) ==
    [rows |-> [i \in DOMAIN files |-> ChunkRow(i, files[i])],
     texts |-> [i \in DOMAIN files |-> c[files[i]]]]

\* [values[i : i + batch_size] for i in range(0, len(values), batch_size)],
\* for batch_size > 0
RECURSIVE batched(_, _)
batched(values, batch_size) ==
    IF values = <<>> THEN <<>>
    ELSE <<PySlice(values, 0, batch_size)>>
         \o batched(PySlice(values, batch_size, Len(values)), batch_size)

\* client.embeddings.create(model=model, input=batch).data, one embedding per
\* input in input order.  The remote model is a fixed function of the text;
\* the word-count embedder stands for it (unit vectors, as the remote
\* model returns).
ApiEmbeddings(batch) == [i \in DOMAIN batch |-> embed(batch[i])]

\* Fault: the new embeddings are put in front of the earlier ones.
ExtendFront(vectors, items) == items \o vectors

\* vectors.extend(item.embedding for item in response.data)
Extend(vectors, items) == vectors \o items

\* faiss.normalize_L2 on one row: the row divided by its norm, a zero row
\* left as it is.
normalize_L2(v) ==
    LET sq == SumSq(v.counts, DOMAIN v.counts)
    IN  IF sq = 0 THEN v ELSE [counts |-> v.counts, norm2 |-> sq]

\* build_index: IndexFlatIP over the normalised rows for cosine, IndexFlatL2
\* over the rows as they are otherwise; index.add keeps the rows in order.
build_index(embeddings, metric) ==
    IF metric = "cosine"
    THEN [kind |-> "IndexFlatIP",
          vectors |-> [i \in DOMAIN embeddings |-> normalize_L2(embeddings[i])]]
    ELSE [kind |-> "IndexFlatL2", vectors |-> embeddings]

\* The three files write_outputs writes.  `by` is the build that wrote the
\* file (created_at in the manifest).
IndexFile(index, by) == [exists |-> TRUE, by |-> by, index |-> index]

MetadataFile(rows, by) == [exists |-> TRUE, by |-> by, lines |-> rows]

ManifestFile(metric, num_vectors, by) ==
    [exists |-> TRUE, by |-> by, metric |-> metric, num_vectors |-> num_vectors]

ArtifactNames == <<"index", "metadata", "manifest">>

\* Fault: only the manifest is looked for.
ExistingManifestOnly(dir) == IF dir.manifest.exists THEN <<"manifest">> ELSE <<>>

\* existing = [p for p in [index_path, metadata_path, manifest_path] if p.exists()]
Existing(dir) ==
    (IF dir.index.exists THEN <<"index">> ELSE <<>>)
    \o (IF dir.metadata.exists THEN <<"metadata">> ELSE <<>>)
    \o (IF dir.manifest.exists THEN <<"manifest">> ELSE <<>>)

Raised(b, kind) == [b EXCEPT !.error = Some([kind |-> kind])]

\* Fault: a failed request is passed over and the loop goes on.
EmbedBatchSkipFailed(b, ok) ==
    LET batch == b.batches[b.idx + 1]
        b1 == IF ok
              THEN [b EXCEPT !.vectors = Extend(b.vectors, ApiEmbeddings(batch)),
                             !.idx = b.idx + 1]
              ELSE [Raised(b, "APIError") EXCEPT !.idx = b.idx + 1]
    IN  [build |-> b1,
         bpc |-> IF b1.idx = Len(b.batches) THEN "embedded" ELSE "embedding"]

\* One pass of the loop `for idx, batch in enumerate(batches, start=1)`:
\* the request raises, or its embeddings are appended.
EmbedBatch(b, ok) ==
    LET batch == b.batches[b.idx + 1]
        b1 == [b EXCEPT !.vectors = Extend(b.vectors, ApiEmbeddings(batch)),
                        !.idx = b.idx + 1]
    IN  IF ~ok THEN [build |-> Raised(b, "APIError"), bpc |-> "failed"]
        ELSE [build |-> b1,
              bpc |-> IF b1.idx = Len(b.batches) THEN "embedded" ELSE "embedding"]

\* The artifact set a whole build over the chunk files c writes.
Artifacts(c, metric, by) ==
    LET files == discover_chunks(c)
        rt == chunk_rows_from_files(files, c)
        embeddings == ApiEmbeddings(rt.texts)
    IN  [index |-> IndexFile(build_index(embeddings, metric), by),
         metadata |-> MetadataFile(rt.rows, by),
         manifest |-> ManifestFile(metric, Len(embeddings), by)]

\* The texts a chunk file may hold.
BuildTexts == {<<"a">>, <<"A", "b">>}

\* A first build of an output directory and a second one.
Builds == {1, 2}

Corpora == [ChunkPaths -> BuildTexts \cup {Absent}]

BuildArgs ==
    [batch_size : 0..MaxBatch, metric : {"cosine", "l2"}, overwrite : BOOLEAN]

InitBuilder ==
    /\ corpus \in Corpora
    /\ outdir = EmptyDir
    /\ api_key \in BOOLEAN
    /\ libs \in BOOLEAN
    /\ NoBuild
    /\ NoService
    /\ NoStore
    /\ NoIndex
    /\ NoCallers
    /\ NoAllocator
    /\ NoProposal
    /\ question = <<>>
    /\ chunks = <<>>
    /\ config = [retrieval_top_k |-> 8,
                 retrieval_threshold |-> ThresholdDefault,
                 retrieval_cap |-> 25]
    /\ Idle
    /\ args = [chunk_size_tokens |-> 1, chunk_overlap_tokens |-> 0]
    /\ doc_text = <<>>
    /\ NoChunker

\* build_faiss_index up to the first embedding request: _import_dependencies,
\* discover_chunks, chunk_rows_from_files, and the checks embed_texts_openai
\* and batched make before the loop.
build_faiss_index_enter ==
    /\ bpc = "idle"
    /\ run + 1 \in Builds
    /\ run' = run + 1
    /\ \E a \in BuildArgs :
          /\ bargs' = a
          /\ LET files == discover_chunks(corpus)
                 rt == chunk_rows_from_files(files, corpus)
                 read == [NoLocals EXCEPT !.files = files, !.rows = rt.rows,
                                          !.texts = rt.texts]
             IN  IF ~libs
                 THEN build' = Raised(NoLocals, "MissingDependency") /\ bpc' = "failed"
                 ELSE IF files = <<>>
                 THEN build' = Raised(NoLocals, "NoChunkFiles") /\ bpc' = "failed"
                 ELSE IF ~api_key
                 THEN build' = Raised(read, "MissingApiKey") /\ bpc' = "failed"
                 ELSE IF a.batch_size <= 0
                 THEN build' = Raised(read, "ValueError") /\ bpc' = "failed"
                 ELSE /\ build' = [read EXCEPT
                                      !.batches = batched(rt.texts, a.batch_size)]
                      /\ bpc' = "embedding"
    /\ UNCHANGED envVars
    /\ UNCHANGED <<retrievalVars, chunkerVars, faissVars, proposerVars>>
    /\ UNCHANGED <<storeVars, indexVars, raceVars, allocVars>>

\* One embedding request of embed_texts_openai.
embed_batch ==
    /\ bpc = "embedding"
    /\ \E ok \in BOOLEAN :
          /\ build' = EmbedBatch(build, ok).build
          /\ bpc' = EmbedBatch(build, ok).bpc
    /\ UNCHANGED <<bargs, run>>
    /\ UNCHANGED envVars
    /\ UNCHANGED <<retrievalVars, chunkerVars, faissVars, proposerVars>>
    /\ UNCHANGED <<storeVars, indexVars, raceVars, allocVars>>

\* matrix = np.array(vectors); index = build_index(embeddings, metric, faiss)
build_index_step ==
    /\ bpc = "embedded"
    /\ build' = [build EXCEPT !.index = Some(build_index(build.vectors, bargs.metric))]
    /\ bpc' = "outputs"
    /\ UNCHANGED <<bargs, run>>
    /\ UNCHANGED envVars
    /\ UNCHANGED <<retrievalVars, chunkerVars, faissVars, proposerVars>>
    /\ UNCHANGED <<storeVars, indexVars, raceVars, allocVars>>

\* write_outputs up to the first write: the directory is made and, without
\* overwrite, the three paths are tested.
write_outputs_enter ==
    /\ bpc = "outputs"
    /\ IF ~bargs.overwrite /\ Existing(outdir) # <<>>
       THEN /\ build' = [build EXCEPT
                            !.error = Some([kind |-> "OutputConflict",
                                            files |-> Existing(outdir)])]
            /\ bpc' = "failed"
       ELSE /\ bpc' = "write_index"
            /\ UNCHANGED build
    /\ UNCHANGED <<bargs, run>>
    /\ UNCHANGED envVars
    /\ UNCHANGED <<retrievalVars, chunkerVars, faissVars, proposerVars>>
    /\ UNCHANGED <<storeVars, indexVars, raceVars, allocVars>>

\* faiss.write_index(index, str(index_path))
write_index ==
    /\ bpc = "write_index"
    /\ outdir' = [outdir EXCEPT !.index = IndexFile(build.index.val, run)]
    /\ bpc' = "write_metadata"
    /\ UNCHANGED <<corpus, api_key, libs, bargs, run, build>>
    /\ UNCHANGED <<retrievalVars, chunkerVars, faissVars, proposerVars>>
    /\ UNCHANGED <<storeVars, indexVars, raceVars, allocVars>>

\* with metadata_path.open("w") as f: one line per row
write_metadata ==
    /\ bpc = "write_metadata"
    /\ outdir' = [outdir EXCEPT !.metadata = MetadataFile(build.rows, run)]
    /\ bpc' = "write_manifest"
    /\ UNCHANGED <<corpus, api_key, libs, bargs, run, build>>
    /\ UNCHANGED <<retrievalVars, chunkerVars, faissVars, proposerVars>>
    /\ UNCHANGED <<storeVars, indexVars, raceVars, allocVars>>

\* manifest_path.write_text(json.dumps(manifest)), and the return
write_manifest ==
    /\ bpc = "write_manifest"
    /\ outdir' = [outdir EXCEPT
                     !.manifest = ManifestFile(bargs.metric, Len(build.vectors), run)]
    /\ bpc' = "done"
    /\ UNCHANGED <<corpus, api_key, libs, bargs, run, build>>
    /\ UNCHANGED <<retrievalVars, chunkerVars, faissVars, proposerVars>>
    /\ UNCHANGED <<storeVars, indexVars, raceVars, allocVars>>

Running ==
    {"embedding", "embedded", "outputs", "write_index", "write_metadata",
     "write_manifest"}

\* The process stops before its next step (it is killed, or the step is a
\* write that raises).
interrupt ==
    /\ bpc \in Running
    /\ bpc' = "stopped"
    /\ UNCHANGED <<bargs, run, build>>
    /\ UNCHANGED envVars
    /\ UNCHANGED <<retrievalVars, chunkerVars, faissVars, proposerVars>>
    /\ UNCHANGED <<storeVars, indexVars, raceVars, allocVars>>

\* The builder is started again, as a new process.
next_build ==
    /\ bpc \in {"done", "failed", "stopped"}
    /\ run + 1 \in Builds
    /\ bpc' = "idle"
    /\ build' = NoLocals
    /\ bargs' = DefaultArgs
    /\ UNCHANGED run
    /\ UNCHANGED envVars
    /\ UNCHANGED <<retrievalVars, chunkerVars, faissVars, proposerVars>>
    /\ UNCHANGED <<storeVars, indexVars, raceVars, allocVars>>

\* Between two builds the ingestion stores one more chunk file.
add_chunk_file ==
    /\ bpc = "idle"
    /\ run >= 1
    /\ \E path \in ChunkPaths, t \in BuildTexts :
          /\ corpus[path] = Absent
          /\ corpus' = [corpus EXCEPT ![path] = t]
    /\ UNCHANGED <<outdir, api_key, libs>>
    /\ UNCHANGED builderVars
    /\ UNCHANGED <<retrievalVars, chunkerVars, faissVars, proposerVars>>
    /\ UNCHANGED <<storeVars, indexVars, raceVars, allocVars>>

NextBuilder ==
    \/ build_faiss_index_enter
    \/ embed_batch
    \/ build_index_step
    \/ write_outputs_enter
    \/ write_index
    \/ write_metadata
    \/ write_manifest
    \/ interrupt
    \/ next_build
    \/ add_chunk_file

SpecBuilder == InitBuilder /\ [][NextBuilder]_vars

\* ------------------------------------------- persistent-index retrieval
\* The score index.search reports for row i: the inner product for
\* IndexFlatIP, the squared distance for IndexFlatL2.  Between unit vectors
\* the squared distance is 2 - 2 cos; ScoreScale - cos^2 stands for it, which
\* orders and ties the rows in the same way.
IndexScore(index, q, i) ==
    IF index.kind = "IndexFlatIP"
    THEN cosine(q, index.vectors[i])
    ELSE ScoreScale - cosine(q, index.vectors[i])

\* s is a strictly better score than t: larger inner product, smaller distance.
Better(index, s, t) == IF index.kind = "IndexFlatIP" THEN s > t ELSE s < t

\* The entry index.search fills a missing hit with: id -1.
NoHit == <<0 - 1, 0 - 1>>

\* The ways to list the m best of the rows `remaining`, best first: a row no
\* other remaining row beats, then the m - 1 best of the others.  The library
\* does not promise an order among rows of equal score, so every such order
\* is a possible result.
RECURSIVE BestFirst(_, _, _, _)
BestFirst(index, score, remaining, m) ==
    IF m = 0 \/ remaining = {} THEN {<<>>}
    ELSE UNION {{<<x>> \o rest :
                    rest \in BestFirst(index, score, remaining \ {x}, m - 1)} :
                x \in {y \in remaining :
                          \A z \in remaining : ~Better(index, score[z], score[y])}}

\* index.search(vector, k): k entries <<score, id>>, the min(k, ntotal) best
\* rows best first (ids count from 0), then NoHit.
SearchResults(index, q, k) ==
    LET ids == 1..Len(index.vectors)
        score == [i \in ids |-> IndexScore(index, q, i)]
    IN  {[i \in 1..k |-> IF i <= Len(o) THEN <<score[o[i]], o[i] - 1>> ELSE NoHit] :
            o \in BestFirst(index, score, ids, k)}

\* rows_by_id[int(row["faiss_id"])] = row, for every line of the metadata file
RECURSIVE RowsById(_, _)
RowsById(d, lines) ==
    IF lines = <<>> THEN d
    ELSE RowsById(DictSet(d, Head(lines).faiss_id, Head(lines)), Tail(lines))

\* rows_by_chunk_id[str(row["chunk_id"])] = row
RECURSIVE RowsByChunkId(_, _)
RowsByChunkId(d, lines) ==
    IF lines = <<>> THEN d
    ELSE RowsByChunkId(DictSet(d, Head(lines).chunk_id, Head(lines)), Tail(lines))

Str(s) == [str |-> s]

\* Fault: only the index file is looked for.
MissingArtifactsIndexOnly(dir) == ~dir.index.exists

\* not index_path.exists() or not metadata_path.exists()
MissingArtifacts(dir) == ~dir.index.exists \/ ~dir.metadata.exists

\* Fault: the loaded index is never found.
AlreadyLoadedNever(s) == FALSE

\* self._faiss_index is not None and self._faiss_rows_by_id is not None
AlreadyLoaded(s) == ~s.faiss_index.none /\ ~s.faiss_rows_by_id.none

\* Fault: a recorded diagnostic is never found.
ErrorRecordedNever(s) == FALSE

\* if self.faiss_error
ErrorRecorded(s) == ~s.faiss_error.none

\* RetrievalService._ensure_faiss_ready on the fields s: the fields after the
\* call, and "ready" for True, "not_ready" for False, "raised" for an
\* exception (opening a file that does not exist); probed tells whether the
\* call went on to the imports and the files, loaded whether it ran
\* faiss.read_index.
ensure_faiss_ready(s) ==
    IF AlreadyLoaded(s)
    THEN [svc |-> s, status |-> "ready", probed |-> FALSE, loaded |-> FALSE]
    ELSE IF ErrorRecorded(s)
    THEN [svc |-> s, status |-> "not_ready", probed |-> FALSE, loaded |-> FALSE]
    ELSE IF ~libs
    THEN [svc |-> [s EXCEPT !.faiss_error = Some(Str("Missing dependency"))],
          status |-> "not_ready", probed |-> TRUE, loaded |-> FALSE]
    ELSE IF MissingArtifacts(outdir)
    THEN [svc |-> [s EXCEPT !.faiss_error = Some(Str("Missing FAISS artifacts"))],
          status |-> "not_ready", probed |-> TRUE, loaded |-> FALSE]
    ELSE IF ~outdir.metadata.exists
    THEN [svc |-> s, status |-> "raised", probed |-> TRUE, loaded |-> FALSE]
    ELSE LET lines == outdir.metadata.lines
             s1 == [s EXCEPT !.faiss_metric =
                        IF outdir.manifest.exists THEN outdir.manifest.metric
                        ELSE "cosine"]
             s2 == [s1 EXCEPT !.faiss = Some(Str("faiss")),
                              !.np = Some(Str("numpy")),
                              !.openai_client = Some(Str("OpenAI"))]
         IN  IF ~api_key
             THEN [svc |-> [s1 EXCEPT
                               !.faiss_error = Some(Str("OPENAI_API_KEY is not set."))],
                   status |-> "not_ready", probed |-> TRUE, loaded |-> FALSE]
             ELSE IF ~outdir.index.exists
             THEN [svc |-> s2, status |-> "raised", probed |-> TRUE, loaded |-> FALSE]
             ELSE [svc |-> [s2 EXCEPT
                               !.faiss_index = Some(outdir.index.index),
                               !.faiss_rows_by_id = Some(RowsById(<<>>, lines)),
                               !.faiss_rows_by_chunk_id =
                                   Some(RowsByChunkId(<<>>, lines))],
                   status |-> "ready", probed |-> TRUE, loaded |-> TRUE]

\* The query vector: the embedding of the question, normalised under cosine.
QueryVector(s, q) ==
    IF s.faiss_metric = "cosine"
    THEN normalize_L2(ApiEmbeddings(<<q>>)[1])
    ELSE ApiEmbeddings(<<q>>)[1]

\* Fault: rank is the position of the hit in the search result.
RECURSIVE RankHitsByPosition(_, _, _)
RankHitsByPosition(ranked, hits, rows_by_id) ==
    IF hits = <<>> THEN ranked
    ELSE LET score == hits[Len(hits)][1]
             faiss_id == hits[Len(hits)][2]
             row == DictGet(rows_by_id, faiss_id)
             before == RankHitsByPosition(ranked, SubSeq(hits, 1, Len(hits) - 1),
                                          rows_by_id)
         IN  IF faiss_id < 0 \/ row.none THEN before
             ELSE Append(before, [chunk_id |-> row.val.chunk_id, score |-> score,
                                  rank |-> Len(hits)])

\* for score, faiss_id in zip(scores[0], ids[0]): skip a negative id and an
\* id without a row, append the others with rank=len(ranked) + 1.
RECURSIVE RankHits(_, _, _)
RankHits(ranked, hits, rows_by_id) ==
    IF hits = <<>> THEN ranked
    ELSE LET score == Head(hits)[1]
             faiss_id == Head(hits)[2]
             row == DictGet(rows_by_id, faiss_id)
         IN  IF faiss_id < 0 \/ row.none
             THEN RankHits(ranked, Tail(hits), rows_by_id)
             ELSE RankHits(Append(ranked, [chunk_id |-> row.val.chunk_id,
                                           score |-> score,
                                           rank |-> Len(ranked) + 1]),
                           Tail(hits), rows_by_id)

\* Fault: the cache is never found to hold a text.
CacheNeverHolds(cache, chunk_id) == FALSE

\* not (cand.chunk_id not in self._chunk_text_cache)
CacheHolds(cache, chunk_id) == ~cache[chunk_id].none

\* The loop of load_chunks_for_candidates over the fields st = [cache,
\* chunks_by_id, reads]: the cache, the result so far, the file reads made.
RECURSIVE LoadLoop(_, _, _)
LoadLoop(candidates, rows_by_chunk_id, st) ==
    IF candidates = <<>> THEN st
    ELSE LET cand == Head(candidates)
             row == DictGet(rows_by_chunk_id, cand.chunk_id)
         IN  IF row.none
             THEN LoadLoop(Tail(candidates), rows_by_chunk_id, st)
             ELSE IF corpus[row.val.file_path] = Absent
             THEN LoadLoop(Tail(candidates), rows_by_chunk_id, st)
             ELSE LET chunk_path == row.val.file_path
                      held == CacheHolds(st.cache, cand.chunk_id)
                      cache1 == IF held THEN st.cache
                                ELSE [st.cache EXCEPT ![cand.chunk_id] = Some(corpus[chunk_path])]
                      reads1 == IF held THEN st.reads
                                ELSE [st.reads EXCEPT
                                         ![chunk_path] = Append(@, corpus[chunk_path])]
                      chunk == [chunk_id |-> cand.chunk_id,
                                paper_id |-> row.val.paper_id,
                                text |-> cache1[cand.chunk_id].val,
                                index |-> ParseInt(cand.chunk_id[2])]
                  IN  LoadLoop(Tail(candidates), rows_by_chunk_id,
                               [cache |-> cache1,
                                chunks_by_id |-> DictSet(st.chunks_by_id,
                                                         cand.chunk_id, chunk),
                                reads |-> reads1])

\* The chunk files before one more was stored: all but the last discovered.
Older(c) ==
    LET files == discover_chunks(c)
    IN  [path \in DOMAIN c |->
            IF files # <<>> /\ path = files[Len(files)] THEN Absent ELSE c[path]]

\* The questions asked: the chunk texts and one more.
FaissQuestions == BuildTexts \cup {<<"b">>}

\* limit: not positive, fewer than the vectors of an index, as many, one more
Limits == {0 - 1, 0, 1, 2, MaxFiles + 1, MaxFiles + 2}

Candidate(chunk_id) == [chunk_id |-> chunk_id, score |-> 0, rank |-> 1]

\* Candidate lists of up to two entries.
CandidateLists ==
    {<<>>} \cup {<<Candidate(c)>> : c \in CandidateIds}
           \cup {<<Candidate(c), Candidate(d)>> : c, d \in CandidateIds}

\* Every chunk file exists.
FullCorpora == [ChunkPaths -> BuildTexts]

\* Every chunk file holds the same text.
SameTextCorpus == [path \in ChunkPaths |-> <<"a">>]

\* One chunk file exists.
OneFileCorpus ==
    [path \in ChunkPaths |-> IF path = ChunkPath("p", 0) THEN <<"a">> ELSE Absent]

\* Output directories with an index: that of a build over all chunk files,
\* after a first build over all but the last.  The second build may have
\* stopped before it wrote the metadata, or the manifest.
InitFaiss ==
    /\ corpus \in FullCorpora
    /\ \/ outdir = Artifacts(corpus, "l2", 2)
       \/ LET first == Artifacts(Older(corpus), "cosine", 1)
              second == Artifacts(corpus, "cosine", 2)
          IN  outdir \in [index : {second.index},
                          metadata : {first.metadata, second.metadata},
                          manifest : {NoFile, second.manifest}]
    /\ api_key = TRUE
    /\ libs = TRUE
    /\ NoBuild
    /\ NoService
    /\ NoStore
    /\ NoIndex
    /\ NoCallers
    /\ NoAllocator
    /\ NoProposal
    /\ question = <<>>
    /\ chunks = <<>>
    /\ config = [retrieval_top_k |-> 8,
                 retrieval_threshold |-> ThresholdDefault,
                 retrieval_cap |-> 25]
    /\ Idle
    /\ args = [chunk_size_tokens |-> 1, chunk_overlap_tokens |-> 0]
    /\ doc_text = <<>>
    /\ NoChunker

\* Any of the three artifacts, a library or the credential may be missing.
InitReady ==
    /\ corpus = OneFileCorpus
    /\ LET built == Artifacts(corpus, "cosine", 1)
       IN  outdir \in [index : {NoFile, built.index},
                       metadata : {NoFile, built.metadata},
                       manifest : {NoFile, built.manifest}]
    /\ api_key \in BOOLEAN
    /\ libs \in BOOLEAN
    /\ NoBuild
    /\ NoService
    /\ NoStore
    /\ NoIndex
    /\ NoCallers
    /\ NoAllocator
    /\ NoProposal
    /\ question = <<>>
    /\ chunks = <<>>
    /\ config = [retrieval_top_k |-> 8,
                 retrieval_threshold |-> ThresholdDefault,
                 retrieval_cap |-> 25]
    /\ Idle
    /\ args = [chunk_size_tokens |-> 1, chunk_overlap_tokens |-> 0]
    /\ doc_text = <<>>
    /\ NoChunker

\* A complete artifact set; some chunk files have been removed since.
InitCache ==
    /\ corpus \in [ChunkPaths -> {<<"a">>, Absent}]
    /\ outdir = Artifacts(SameTextCorpus, "cosine", 1)
    /\ api_key = TRUE
    /\ libs = TRUE
    /\ NoBuild
    /\ NoService
    /\ NoStore
    /\ NoIndex
    /\ NoCallers
    /\ NoAllocator
    /\ NoProposal
    /\ question = <<>>
    /\ chunks = <<>>
    /\ config = [retrieval_top_k |-> 8,
                 retrieval_threshold |-> ThresholdDefault,
                 retrieval_cap |-> 25]
    /\ Idle
    /\ args = [chunk_size_tokens |-> 1, chunk_overlap_tokens |-> 0]
    /\ doc_text = <<>>
    /\ NoChunker

\* RetrievalService.retrieve_top_faiss(question, limit)
retrieve_top_faiss ==
    /\ LET r == ensure_faiss_ready(svc)
       IN  \E q \in FaissQuestions, limit \in Limits, api_ok \in BOOLEAN :
          LET call == [op |-> "retrieve_top_faiss", question |-> q, limit |-> limit,
                       status |-> "not_checked", api |-> "not_called",
                       outcome |-> "returned", hits |-> <<>>, value |-> <<>>,
                       probed |-> FALSE, loaded |-> FALSE]
              checked == [call EXCEPT !.probed = r.probed, !.loaded = r.loaded]
          IN  IF limit <= 0
              THEN ret' = call /\ svc' = svc
              ELSE /\ svc' = r.svc
                   /\ IF r.status = "not_ready"
                      THEN ret' = [checked EXCEPT !.status = r.status]
                      ELSE IF r.status = "raised"
                      THEN ret' = [checked EXCEPT !.status = r.status,
                                               !.outcome = "raised"]
                      ELSE IF ~api_ok
                      THEN ret' = [checked EXCEPT !.status = r.status,
                                               !.api = "failed",
                                               !.outcome = "raised"]
                      ELSE \E hits \in SearchResults(r.svc.faiss_index.val,
                                                     QueryVector(r.svc, q), limit) :
                              ret' = [checked EXCEPT
                                         !.status = r.status,
                                         !.api = "ok",
                                         !.hits = hits,
                                         !.value = RankHits(<<>>, hits,
                                                      r.svc.faiss_rows_by_id.val)]
    /\ UNCHANGED disk_reads
    /\ UNCHANGED envVars
    /\ UNCHANGED <<retrievalVars, chunkerVars, builderVars, proposerVars>>
    /\ UNCHANGED <<storeVars, indexVars, raceVars, allocVars>>

\* RetrievalService.load_chunks_for_candidates(candidates)
load_chunks_for_candidates ==
    /\ LET r == ensure_faiss_ready(svc)
       IN  \E candidates \in CandidateLists :
          LET call == [op |-> "load_chunks_for_candidates",
                       candidates |-> candidates, status |-> r.status,
                       outcome |-> "returned", value |-> <<>>, read |-> {},
                       probed |-> r.probed, loaded |-> r.loaded]
              st == LoadLoop(candidates, r.svc.faiss_rows_by_chunk_id.val,
                             [cache |-> r.svc.chunk_text_cache,
                              chunks_by_id |-> <<>>, reads |-> disk_reads])
          IN  IF r.status = "not_ready"
              THEN svc' = r.svc /\ ret' = call /\ UNCHANGED disk_reads
              ELSE IF r.status = "raised"
              THEN /\ svc' = r.svc
                   /\ ret' = [call EXCEPT !.outcome = "raised"]
                   /\ UNCHANGED disk_reads
              ELSE /\ svc' = [r.svc EXCEPT !.chunk_text_cache = st.cache]
                   /\ ret' = [call EXCEPT
                                 !.value = st.chunks_by_id,
                                 !.read = {path \in ChunkPaths :
                                              st.reads[path] # disk_reads[path]}]
                   /\ disk_reads' = st.reads
    /\ UNCHANGED envVars
    /\ UNCHANGED <<retrievalVars, chunkerVars, builderVars, proposerVars>>
    /\ UNCHANGED <<storeVars, indexVars, raceVars, allocVars>>

\* The libraries are installed, the credential is set and the builder is run
\* with overwrite: nothing the readiness check looks for is missing any more.
environment_repaired ==
    /\ ~libs \/ ~api_key \/ Existing(outdir) # ArtifactNames
    /\ libs' = TRUE
    /\ api_key' = TRUE
    /\ outdir' = Artifacts(corpus, "cosine", 2)
    /\ UNCHANGED corpus
    /\ UNCHANGED <<retrievalVars, chunkerVars, builderVars, faissVars, proposerVars>>
    /\ UNCHANGED <<storeVars, indexVars, raceVars, allocVars>>

\* The builder is run again with overwrite and metric=l2 after the service
\* has loaded the index.
artifacts_replaced ==
    /\ ~svc.faiss_index.none
    /\ outdir = Artifacts(corpus, "cosine", 1) \/ outdir = Artifacts(corpus, "cosine", 2)
    /\ outdir' = Artifacts(corpus, "l2", 2)
    /\ UNCHANGED <<corpus, api_key, libs>>
    /\ UNCHANGED <<retrievalVars, chunkerVars, builderVars, faissVars, proposerVars>>
    /\ UNCHANGED <<storeVars, indexVars, raceVars, allocVars>>

\* A chunk file the service has read is written again, with another text.
chunk_file_rewritten ==
    /\ \E path \in ChunkPaths :
          /\ corpus[path] = <<"a">>
          /\ disk_reads[path] # <<>>
          /\ corpus' = [corpus EXCEPT ![path] = <<"A", "b">>]
    /\ UNCHANGED <<outdir, api_key, libs>>
    /\ UNCHANGED <<retrievalVars, chunkerVars, builderVars, faissVars, proposerVars>>
    /\ UNCHANGED <<storeVars, indexVars, raceVars, allocVars>>

NextFaiss == retrieve_top_faiss

SpecFaiss == InitFaiss /\ [][NextFaiss]_vars

NextReady ==
    \/ retrieve_top_faiss
    \/ load_chunks_for_candidates
    \/ environment_repaired
    \/ artifacts_replaced

SpecReady == InitReady /\ [][NextReady]_vars

NextCache == load_chunks_for_candidates \/ chunk_file_rewritten

SpecCache == InitCache /\ [][NextCache]_vars

\* -------------------------------------------------------- EvidenceProposer
\* Fault: the list is cut without being sorted.
ProposeUnsorted(retrieval_candidates, max_candidates) ==
    LET top == PySlice(retrieval_candidates, 0, max_candidates)
    IN  [i \in DOMAIN top |-> top[i].chunk_id]

\* [c.chunk_id for c in sorted(retrieval_candidates, key=lambda x: x.score,
\*                             reverse=True)[:max_candidates]]
propose(retrieval_candidates, max_candidates) ==
    LET keyed == [i \in DOMAIN retrieval_candidates |->
                     <<retrieval_candidates[i], retrieval_candidates[i].score>>]
        top == PySlice(SortDesc(keyed), 0, max_candidates)
    IN  [i \in DOMAIN top |-> top[i][1].chunk_id]

ProposerIds == {ChunkId(PaperId, n) : n \in 0..(MaxCands - 1)}

ProposerScores == {0, ScoreScale}

\* Candidate lists of n entries; rank is the position in the list.
CandidateSeqs(n) ==
    {[i \in 1..n |-> [chunk_id |-> f[i][1], score |-> f[i][2], rank |-> i]] :
        f \in [1..n -> ProposerIds \X ProposerScores]}

InitProposer ==
    /\ \E n \in 0..MaxCands :
          pargs \in [retrieval_candidates : CandidateSeqs(n),
                     max_candidates : (0 - MaxNeg)..(MaxCands + 1)]
    /\ proposed = <<>>
    /\ ppc = "call"
    /\ NoIndexFiles
    /\ NoBuild
    /\ NoService
    /\ NoStore
    /\ NoIndex
    /\ NoCallers
    /\ NoAllocator
    /\ question = <<>>
    /\ chunks = <<>>
    /\ config = [retrieval_top_k |-> 8,
                 retrieval_threshold |-> ThresholdDefault,
                 retrieval_cap |-> 25]
    /\ Idle
    /\ args = [chunk_size_tokens |-> 1, chunk_overlap_tokens |-> 0]
    /\ doc_text = <<>>
    /\ NoChunker

\* EvidenceProposer.propose(retrieval_candidates, max_candidates)
EvidenceProposer_propose ==
    /\ ppc = "call"
    /\ proposed' = propose(pargs.retrieval_candidates, pargs.max_candidates)
    /\ ppc' = "done"
    /\ UNCHANGED pargs
    /\ UNCHANGED <<retrievalVars, chunkerVars, envVars, builderVars, faissVars>>
    /\ UNCHANGED <<storeVars, indexVars, raceVars, allocVars>>

NextProposer == EvidenceProposer_propose

SpecProposer == InitProposer /\ [][NextProposer]_vars

\* ------------------------------------------- ChunkStore, PipelineService
\* The members of a set of numbers in ascending order.
RECURSIVE Ascending(_)
Ascending(S) ==
    IF S = {} THEN <<>>
    ELSE LET least == CHOOSE x \in S : \A y \in S : x <= y
         IN  <<least>> \o Ascending(S \ {least})

\* The list Chunker.chunk_text returns for a document of n chunks of the text
\* `text` each, as far as the model follows its chunk files.
ChunksOfDocument(n, text) ==
    LET followed == Ascending({i \in StoreIndexes : i < n})
    IN  [k \in DOMAIN followed |-> Chunk(PaperId, followed[k], text)]

\* paper_dir / f"{chunk.chunk_id}.txt"
StorePath(paper_id, chunk_id) == [paper_id |-> paper_id, stem |-> chunk_id]

\* ChunkStore.write_chunks: path.write_text(chunk.text) for every chunk, in
\* order; st = [files, paths].
RECURSIVE WriteLoop(_, _, _)
WriteLoop(paper_id, chunk_list, st) ==
    IF chunk_list = <<>> THEN st
    ELSE LET path == StorePath(paper_id, Head(chunk_list).chunk_id)
         IN  WriteLoop(paper_id, Tail(chunk_list),
                       [files |-> [st.files EXCEPT ![path] = Head(chunk_list).text],
                        paths |-> Append(st.paths, path)])

write_chunks(files, paper_id, chunk_list) ==
    WriteLoop(paper_id, chunk_list, [files |-> files, paths |-> <<>>])

\* ChunkStore.read_chunks: sorted(paper_dir.glob(f"{paper_id}_chunk_*.txt")),
\* and for each file a Chunk with index = int(file.stem.split("_")[-1]).
read_chunks(files, paper_id) ==
    LET matched == SortedPaths({path \in DOMAIN files :
                                   /\ files[path] # Absent
                                   /\ path.paper_id = paper_id
                                   /\ path.stem[1] = paper_id})
    IN  [i \in DOMAIN matched |->
            [chunk_id |-> matched[i].stem,
             paper_id |-> paper_id,
             text |-> files[matched[i]],
             index |-> ParseInt(matched[i].stem[2])]]

\* What a ChunkStore object has: the attribute __init__ sets and the methods
\* the class defines.
ChunkStoreAttrs == {"chunk_root", "write_chunks", "read_chunks", "update_manifest"}

\* getattr(self.chunk_store, name): the lookup of a name the object does not
\* have raises AttributeError.
HasAttr(name) == name \in ChunkStoreAttrs

\* PipelineService.ingest_paper(pdf_path): paper_id = pdf_path.stem, then
\* self.chunk_store.has_chunks is looked up.  ChunkStore defines no
\* has_chunks, so the lookup raises and the statements after it are not
\* reached; nothing has been written or logged by then.
ingest_paper(paper_id) ==
    CASE ~HasAttr("has_chunks") ->
        [outcome |-> "raised", error |-> "AttributeError", value |-> <<>>]

\* sorted(self.config.corpus_dir.glob("*.pdf")), as paper ids
list_pdfs(S) ==
    LET codes == Ascending({Ord(paper_id) : paper_id \in S})
    IN  [i \in DOMAIN codes |-> CHOOSE paper_id \in S : Ord(paper_id) = codes[i]]

\* The loop of PipelineService.ingest_all: summary[pdf.stem] =
\* len(self.ingest_paper(pdf)) for each PDF in turn; an exception of
\* ingest_paper is not caught and ends the loop.  st = [summary, attempted].
RECURSIVE IngestLoop(_, _)
IngestLoop(list, st) ==
    IF list = <<>>
    THEN [outcome |-> "returned", summary |-> st.summary, attempted |-> st.attempted]
    ELSE LET r == ingest_paper(Head(list))
             tried == Append(st.attempted, Head(list))
         IN  IF r.outcome = "raised"
             THEN [outcome |-> "raised", summary |-> <<>>, attempted |-> tried]
             ELSE IngestLoop(Tail(list),
                             [summary |-> DictSet(st.summary, Head(list), Len(r.value)),
                              attempted |-> tried])

\* The two texts a chunk is written with.
StoreTexts == {<<"a">>, <<"b">>}

\* How many chunks a written document has.
WriteSizes == 0..MaxChunks \cup {10000, 10001}

InitStore ==
    /\ chunk_files = NoChunkFiles
    /\ pdfs \in {{}, {"p"}, Papers}
    /\ text_cache = [paper_id \in Papers |-> Absent]
    /\ chunk_manifest = NoFile
    /\ events = <<>>
    /\ pret = NoCall
    /\ NoIndex
    /\ NoCallers
    /\ NoAllocator
    /\ NoIndexFiles
    /\ NoBuild
    /\ NoService
    /\ NoProposal
    /\ question = <<>>
    /\ chunks = <<>>
    /\ config = [retrieval_top_k |-> 8,
                 retrieval_threshold |-> ThresholdDefault,
                 retrieval_cap |-> 25]
    /\ Idle
    /\ args = [chunk_size_tokens |-> 1, chunk_overlap_tokens |-> 0]
    /\ doc_text = <<>>
    /\ NoChunker

\* ChunkStore.write_chunks(paper_id, chunks)
ChunkStore_write_chunks ==
    /\ \E n \in WriteSizes, text \in StoreTexts :
          LET chunk_list == ChunksOfDocument(n, text)
              st == write_chunks(chunk_files, PaperId, chunk_list)
          IN  /\ chunk_files' = st.files
              /\ pret' = [op |-> "write_chunks", paper_id |-> PaperId,
                          chunks |-> chunk_list, outcome |-> "returned",
                          value |-> st.paths]
    /\ UNCHANGED <<pdfs, text_cache, chunk_manifest, events>>
    /\ UNCHANGED <<retrievalVars, chunkerVars, envVars, builderVars, faissVars, proposerVars>>
    /\ UNCHANGED <<indexVars, raceVars, allocVars>>

\* ChunkStore.read_chunks(paper_id); last_write is the chunk list of the
\* write_chunks call right before it, if the call before it was one.
ChunkStore_read_chunks ==
    /\ pret' = [op |-> "read_chunks", paper_id |-> PaperId,
                last_write |-> IF pret.op = "write_chunks"
                               THEN Some(pret.chunks) ELSE None,
                outcome |-> "returned",
                value |-> read_chunks(chunk_files, PaperId)]
    /\ UNCHANGED <<chunk_files, pdfs, text_cache, chunk_manifest, events>>
    /\ UNCHANGED <<retrievalVars, chunkerVars, envVars, builderVars, faissVars, proposerVars>>
    /\ UNCHANGED <<indexVars, raceVars, allocVars>>

\* PipelineService.ingest_paper(pdf_path), for a PDF of the corpus directory
PipelineService_ingest_paper ==
    /\ \E paper_id \in pdfs :
          LET r == ingest_paper(paper_id)
          IN  pret' = [op |-> "ingest_paper", paper_id |-> paper_id,
                       stored |-> read_chunks(chunk_files, paper_id),
                       before |-> <<chunk_files, text_cache, chunk_manifest>>,
                       logged |-> Len(events),
                       outcome |-> r.outcome, error |-> r.error, value |-> r.value]
    /\ UNCHANGED <<chunk_files, pdfs, text_cache, chunk_manifest, events>>
    /\ UNCHANGED <<retrievalVars, chunkerVars, envVars, builderVars, faissVars, proposerVars>>
    /\ UNCHANGED <<indexVars, raceVars, allocVars>>

\* PipelineService.ingest_all()
PipelineService_ingest_all ==
    /\ LET list == list_pdfs(pdfs)
           r == IngestLoop(list, [summary |-> <<>>, attempted |-> <<>>])
       IN  pret' = [op |-> "ingest_all", pdfs |-> list, outcome |-> r.outcome,
                    attempted |-> r.attempted, value |-> r.summary]
    /\ UNCHANGED <<chunk_files, pdfs, text_cache, chunk_manifest, events>>
    /\ UNCHANGED <<retrievalVars, chunkerVars, envVars, builderVars, faissVars, proposerVars>>
    /\ UNCHANGED <<indexVars, raceVars, allocVars>>

NextStore ==
    \/ ChunkStore_write_chunks
    \/ ChunkStore_read_chunks
    \/ PipelineService_ingest_paper
    \/ PipelineService_ingest_all

SpecStore == InitStore /\ [][NextStore]_vars

\* --------------------------------------------- InMemoryVectorIndex alone
InitIndex ==
    /\ index_rows = <<>>
    /\ found = NoCall
    /\ NoStore
    /\ NoCallers
    /\ NoAllocator
    /\ NoIndexFiles
    /\ NoBuild
    /\ NoService
    /\ NoProposal
    /\ question = <<>>
    /\ chunks = <<>>
    /\ config = [retrieval_top_k |-> 8,
                 retrieval_threshold |-> ThresholdDefault,
                 retrieval_cap |-> 25]
    /\ Idle
    /\ args = [chunk_size_tokens |-> 1, chunk_overlap_tokens |-> 0]
    /\ doc_text = <<>>
    /\ NoChunker

\* InMemoryVectorIndex.add(chunk): the chunks of a document are added in the
\* order of their indices.
InMemoryVectorIndex_add ==
    /\ Len(index_rows) < MaxChunks
    /\ \E text \in ChunkTexts :
          index_rows' = add(index_rows, Chunk(PaperId, Len(index_rows), text))
    /\ UNCHANGED found
    /\ UNCHANGED <<retrievalVars, chunkerVars, envVars, builderVars, faissVars, proposerVars>>
    /\ UNCHANGED <<storeVars, raceVars, allocVars>>

\* InMemoryVectorIndex.search(query, limit)
InMemoryVectorIndex_search ==
    /\ \E query \in Questions, limit \in (0 - MaxNeg)..(MaxChunks + 1) :
          found' = [op |-> "search", query |-> query, limit |-> limit,
                    value |-> search(index_rows, query, limit)]
    /\ UNCHANGED index_rows
    /\ UNCHANGED <<retrievalVars, chunkerVars, envVars, builderVars, faissVars, proposerVars>>
    /\ UNCHANGED <<storeVars, raceVars, allocVars>>

NextIndex == InMemoryVectorIndex_add \/ InMemoryVectorIndex_search

SpecIndex == InitIndex /\ [][NextIndex]_vars

\* ------------------------------ concurrent callers of one RetrievalService
\* A caller that is not inside a call.
IdleCaller == [pc |-> "idle", op |-> "none", rows_by_id |-> None, rows_by_chunk_id |-> None]

ServiceOps == {"retrieve_top_faiss", "load_chunks_for_candidates"}

\* A fresh service, the artifacts of a build on disk, libraries and credential
\* present, and no caller inside a call.
InitRace ==
    /\ caller = [t \in Callers |-> IdleCaller]
    /\ inits = 0
    /\ corpus = OneFileCorpus
    /\ outdir = Artifacts(corpus, "cosine", 1)
    /\ api_key = TRUE
    /\ libs = TRUE
    /\ NoBuild
    /\ NoService
    /\ NoStore
    /\ NoIndex
    /\ NoAllocator
    /\ NoProposal
    /\ question = <<>>
    /\ chunks = <<>>
    /\ config = [retrieval_top_k |-> 8,
                 retrieval_threshold |-> ThresholdDefault,
                 retrieval_cap |-> 25]
    /\ Idle
    /\ args = [chunk_size_tokens |-> 1, chunk_overlap_tokens |-> 0]
    /\ doc_text = <<>>
    /\ NoChunker

\* What every step of a caller leaves alone.
CallerFrame ==
    /\ UNCHANGED <<ret, disk_reads>>
    /\ UNCHANGED envVars
    /\ UNCHANGED <<retrievalVars, chunkerVars, builderVars, proposerVars>>
    /\ UNCHANGED <<storeVars, indexVars, allocVars>>

\* A caller enters retrieve_top_faiss (limit > 0) or
\* load_chunks_for_candidates, which call self._ensure_faiss_ready() first.
enter_call(t) ==
    /\ caller[t].pc = "idle"
    /\ \E op \in ServiceOps :
          caller' = [caller EXCEPT ![t] = [IdleCaller EXCEPT !.pc = "check", !.op = op]]
    /\ UNCHANGED <<svc, inits>>
    /\ CallerFrame

\* _ensure_faiss_ready, lines 126-129: the presence test and the error test
check_presence(t) ==
    /\ caller[t].pc = "check"
    /\ caller' = [caller EXCEPT ![t].pc =
                     IF AlreadyLoaded(svc) THEN "proceed"
                     ELSE IF ErrorRecorded(svc) THEN "empty"
                     ELSE "probe"]
    /\ UNCHANGED <<svc, inits>>
    /\ CallerFrame

\* _ensure_faiss_ready, lines 131-173: the imports, the two files, the
\* metadata rows into locals, the metric of the manifest, the credential
probe_environment(t) ==
    /\ caller[t].pc = "probe"
    /\ IF ~libs
       THEN /\ svc' = [svc EXCEPT !.faiss_error = Some(Str("Missing dependency"))]
            /\ caller' = [caller EXCEPT ![t].pc = "empty"]
       ELSE IF MissingArtifacts(outdir)
       THEN /\ svc' = [svc EXCEPT !.faiss_error = Some(Str("Missing FAISS artifacts"))]
            /\ caller' = [caller EXCEPT ![t].pc = "empty"]
       ELSE LET lines == outdir.metadata.lines
                metric == IF outdir.manifest.exists THEN outdir.manifest.metric
                          ELSE "cosine"
            IN  IF ~api_key
                THEN /\ svc' = [svc EXCEPT
                                   !.faiss_metric = metric,
                                   !.faiss_error = Some(Str("OPENAI_API_KEY is not set."))]
                     /\ caller' = [caller EXCEPT ![t].pc = "empty"]
                ELSE /\ svc' = [svc EXCEPT !.faiss_metric = metric]
                     /\ caller' = [caller EXCEPT
                                      ![t].pc = "assign_handles",
                                      ![t].rows_by_id = Some(RowsById(<<>>, lines)),
                                      ![t].rows_by_chunk_id =
                                          Some(RowsByChunkId(<<>>, lines))]
    /\ UNCHANGED inits
    /\ CallerFrame

\* lines 175-177: self._faiss, self._np, self._openai_client
assign_handles(t) ==
    /\ caller[t].pc = "assign_handles"
    /\ svc' = [svc EXCEPT !.faiss = Some(Str("faiss")),
                          !.np = Some(Str("numpy")),
                          !.openai_client = Some(Str("OpenAI"))]
    /\ caller' = [caller EXCEPT ![t].pc = "read_index"]
    /\ UNCHANGED inits
    /\ CallerFrame

\* line 178: self._faiss_index = faiss.read_index(str(index_path))
read_index(t) ==
    /\ caller[t].pc = "read_index"
    /\ svc' = [svc EXCEPT !.faiss_index = Some(outdir.index.index)]
    /\ inits' = inits + 1
    /\ caller' = [caller EXCEPT ![t].pc = "assign_rows_by_id"]
    /\ CallerFrame

\* line 179: self._faiss_rows_by_id = rows_by_id
assign_rows_by_id(t) ==
    /\ caller[t].pc = "assign_rows_by_id"
    /\ svc' = [svc EXCEPT !.faiss_rows_by_id = caller[t].rows_by_id]
    /\ caller' = [caller EXCEPT ![t].pc = "assign_rows_by_chunk_id"]
    /\ UNCHANGED inits
    /\ CallerFrame

\* lines 180-181: self._faiss_rows_by_chunk_id = rows_by_chunk_id; return True
assign_rows_by_chunk_id(t) ==
    /\ caller[t].pc = "assign_rows_by_chunk_id"
    /\ svc' = [svc EXCEPT !.faiss_rows_by_chunk_id = caller[t].rows_by_chunk_id]
    /\ caller' = [caller EXCEPT ![t].pc = "proceed"]
    /\ UNCHANGED inits
    /\ CallerFrame

\* The fields the caller goes on to use after a check that returned True:
\* the assertions of lines 63-67, or of line 97.
FieldsUsed(s, op) ==
    IF op = "retrieve_top_faiss"
    THEN <<s.np, s.faiss, s.faiss_index, s.openai_client, s.faiss_rows_by_id>>
    ELSE <<s.faiss_rows_by_chunk_id>>

\* The caller goes on after the check returned True: an assertion fails when
\* a field it names is None.
proceed(t) ==
    /\ caller[t].pc = "proceed"
    /\ LET used == FieldsUsed(svc, caller[t].op)
       IN  caller' = [caller EXCEPT ![t].pc =
                         IF \E i \in DOMAIN used : used[i].none
                         THEN "raised" ELSE "done"]
    /\ UNCHANGED <<svc, inits>>
    /\ CallerFrame

\* The call is over, with an empty result or with a result; a caller whose
\* assertion failed stays where it is.
leave_call(t) ==
    /\ caller[t].pc \in {"empty", "done"}
    /\ caller' = [caller EXCEPT ![t] = IdleCaller]
    /\ UNCHANGED <<svc, inits>>
    /\ CallerFrame

NextRace ==
    \E t \in Callers :
        \/ enter_call(t)
        \/ check_presence(t)
        \/ probe_environment(t)
        \/ assign_handles(t)
        \/ read_index(t)
        \/ assign_rows_by_id(t)
        \/ assign_rows_by_chunk_id(t)
        \/ proceed(t)
        \/ leave_call(t)

SpecRace == InitRace /\ [][NextRace]_vars

\* -------------------------------------------------- QuestionIdAllocator
\* f"{n:06d}" for n >= 0, as the sequence of its decimal digits
Fmt06d(n) ==
    LET d == Digits(n)
    IN  IF Len(d) >= 6 THEN d ELSE [i \in 1..(6 - Len(d)) |-> 0] \o d

\* f"q_{n:06d}": the prefix and the digits
QuestionId(n) == <<"q", Fmt06d(n)>>

\* str.isdigit() on a file content held as a list of characters, digits as
\* numbers: not empty, and digits only.
IsDigit(raw) == raw # <<>> /\ \A i \in DOMAIN raw : raw[i] \in 0..9

\* QuestionIdAllocator._parse_id: the digits at the end of the id, 0 when
\* the id does not end in digits.
parse_id(question_id) ==
    IF Len(question_id) = 2 /\ IsDigit(question_id[2])
    THEN ParseInt(question_id[2]) ELSE 0

\* QuestionIdAllocator._max_id_from_json on a question file held as the list
\* of the question_id of its rows: 0 when the file does not exist.
RECURSIVE MaxIdLoop(_, _)
MaxIdLoop(ids, max_id) ==
    IF ids = <<>> THEN max_id
    ELSE MaxIdLoop(Tail(ids),
                   IF parse_id(Head(ids)) > max_id THEN parse_id(Head(ids)) ELSE max_id)

max_id_from_json(file) == IF ~file.exists THEN 0 ELSE MaxIdLoop(file.ids, 0)

\* QuestionIdAllocator._persist_counter: write_text(str(value))
persist_counter(dir, value) ==
    [dir EXCEPT !.counter = [exists |-> TRUE, raw |-> Digits(value)]]

\* QuestionIdAllocator._load_starting_id: the counter file when it holds
\* digits, otherwise the largest id of the two question files, which is then
\* written to the counter file.  Returns [dir, value].
load_starting_id(dir) ==
    IF dir.counter.exists /\ IsDigit(dir.counter.raw)
    THEN [dir |-> dir, value |-> ParseInt(dir.counter.raw)]
    ELSE LET max_existing == Max(max_id_from_json(dir.verified),
                                 max_id_from_json(dir.unverified))
         IN  [dir |-> persist_counter(dir, max_existing), value |-> max_existing]

\* QuestionIdAllocator.next_id on an instance with _current_id = current_id:
\* the directory and _current_id after the call, and the id returned.
next_id(dir, current_id) ==
    LET start == IF current_id.none THEN load_starting_id(dir)
                 ELSE [dir |-> dir, value |-> current_id.val]
        value == start.value + 1
    IN  [dir |-> persist_counter(start.dir, value),
         current_id |-> Some(value),
         id |-> QuestionId(value)]

QuestionFile(ids) == [exists |-> TRUE, ids |-> ids]

\* Data directories a run can start from: no counter file, an empty one, or
\* one with the number of the last id; question files that are absent or
\* hold ids issued before, one of them an id without digits.
InitAllocator ==
    /\ data_dir \in [counter : {NoFile, [exists |-> TRUE, raw |-> <<>>],
                                [exists |-> TRUE, raw |-> Digits(2)]},
                     verified : {NoFile, QuestionFile(<<QuestionId(1)>>)},
                     unverified : {NoFile, QuestionFile(<<QuestionId(2), <<"draft">>>>)}]
    /\ allocators = [i \in 1..MaxAllocators |-> [live |-> FALSE, current_id |-> None]]
    /\ issued = <<>>
    /\ NoStore
    /\ NoIndex
    /\ NoCallers
    /\ NoIndexFiles
    /\ NoBuild
    /\ NoService
    /\ NoProposal
    /\ question = <<>>
    /\ chunks = <<>>
    /\ config = [retrieval_top_k |-> 8,
                 retrieval_threshold |-> ThresholdDefault,
                 retrieval_cap |-> 25]
    /\ Idle
    /\ args = [chunk_size_tokens |-> 1, chunk_overlap_tokens |-> 0]
    /\ doc_text = <<>>
    /\ NoChunker

\* QuestionIdAllocator(): a first instance, one more live instance, or an
\* instance created again after a restart; _current_id is None.
QuestionIdAllocator_init ==
    /\ \E i \in DOMAIN allocators :
          allocators' = [allocators EXCEPT ![i] = [live |-> TRUE, current_id |-> None]]
    /\ UNCHANGED <<data_dir, issued>>
    /\ UNCHANGED <<retrievalVars, chunkerVars, envVars, builderVars, faissVars, proposerVars>>
    /\ UNCHANGED <<storeVars, indexVars, raceVars>>

\* QuestionIdAllocator.next_id() on a live instance
QuestionIdAllocator_next_id ==
    /\ Len(issued) < MaxIssued
    /\ \E i \in DOMAIN allocators :
          /\ allocators[i].live
          /\ LET r == next_id(data_dir, allocators[i].current_id)
             IN  /\ data_dir' = r.dir
                 /\ allocators' = [allocators EXCEPT ![i].current_id = r.current_id]
                 /\ issued' = Append(issued, r.id)
    /\ UNCHANGED <<retrievalVars, chunkerVars, envVars, builderVars, faissVars, proposerVars>>
    /\ UNCHANGED <<storeVars, indexVars, raceVars>>

NextAllocator == QuestionIdAllocator_init \/ QuestionIdAllocator_next_id

SpecAllocator == InitAllocator /\ [][NextAllocator]_vars

\* =========================================================== the claims
ResultIds == {result[i].chunk_id : i \in DOMAIN result}

\* The score of a supplied chunk against the question, from the inputs alone.
FullScore(c) == cosine(embed(question), embed(c.text))

\* The single highest-scoring supplied chunk; among equal scores the one
\* supplied first.
IsTopChunk(i) ==
    \A j \in DOMAIN chunks :
        \/ FullScore(chunks[j]) < FullScore(chunks[i])
        \/ FullScore(chunks[j]) = FullScore(chunks[i]) /\ j >= i

SeedIds ==
    {TopHits(scored, config.retrieval_top_k)[i][1].chunk_id :
        i \in DOMAIN TopHits(scored, config.retrieval_top_k)}

\* How many seeds there are: top_k, or every chunk when there are fewer.
SeedCount == Max(0, Min(config.retrieval_top_k, Len(scored)))

\* C1 (as stated): for every input and every configured top_k, threshold and
\* cap, the list retrieve_generous returns has at most cap entries.
C1_AtMostCapAnyCap == pc = "done" => Len(result) <= config.retrieval_cap

\* C1 (amended): for every input and every configured cap >= 0, the list
\* retrieve_generous returns has at most cap entries.
C1_AtMostCap ==
    (pc = "done" /\ config.retrieval_cap >= 0) => Len(result) <= config.retrieval_cap

\* The selection outgrew a positive cap and was cut to it.
C1_Witness ==
    /\ pc = "done"
    /\ config.retrieval_cap >= 1
    /\ Len(selected) > config.retrieval_cap
    /\ Len(result) = config.retrieval_cap

\* C2: every returned candidate carries exactly the score its chunk id has in
\* the full ranked list over all supplied chunks, whether it was a top-k
\* seed, a neighbour or a threshold-recalled chunk.
C2_ScoresFromRankedList ==
    pc = "done" =>
        /\ Len(scored) = Len(chunks)
        /\ \A j \in DOMAIN scored : scored[j][2] = FullScore(scored[j][1])
        /\ \A i \in DOMAIN result :
              \E j \in DOMAIN scored :
                  /\ scored[j][1].chunk_id = result[i].chunk_id
                  /\ scored[j][2] = result[i].score

\* The result holds a seed, a neighbour that is below the threshold and scores
\* differently from the seed, and a chunk only the threshold walk added.
C2_Witness ==
    /\ pc = "done"
    /\ \E s, n, t \in DOMAIN result :
          /\ result[s].chunk_id \in SeedIds
          /\ result[n].chunk_id \in Keys(seeded) \ SeedIds
          /\ result[n].score < config.retrieval_threshold
          /\ result[n].score # result[s].score
          /\ result[t].chunk_id \notin Keys(seeded)

\* C3: the returned candidates have ranks 1, 2, ..., N in list order, their
\* scores do not increase with rank, and no chunk id appears twice.
C3_DenseRanks ==
    pc = "done" =>
        /\ \A i \in DOMAIN result : result[i].rank = i
        /\ \A i, j \in DOMAIN result : i < j => result[i].score >= result[j].score
        /\ \A i, j \in DOMAIN result :
              result[i].chunk_id = result[j].chunk_id => i = j

C3_Witness ==
    /\ pc = "done"
    /\ Len(result) >= 3
    /\ result[1].score > result[2].score
    /\ result[2].score > result[3].score

\* C4 (as stated): whenever top_k >= 1 and the chunk list is non-empty, the
\* single highest-scoring chunk is in the result, for every threshold and cap.
C4_TopChunkPresentAnyCap ==
    (pc = "done" /\ config.retrieval_top_k >= 1 /\ chunks # <<>>) =>
        \E i \in DOMAIN chunks : IsTopChunk(i) /\ chunks[i].chunk_id \in ResultIds

\* C4 (amended): whenever top_k >= 1, cap >= 1 and the chunk list is
\* non-empty, the single highest-scoring chunk is in the result, for every
\* threshold.
C4_TopChunkPresent ==
    (/\ pc = "done"
     /\ config.retrieval_top_k >= 1
     /\ config.retrieval_cap >= 1
     /\ chunks # <<>>) =>
        \E i \in DOMAIN chunks : IsTopChunk(i) /\ chunks[i].chunk_id \in ResultIds

\* The top score is tied, the selection outgrew the cap, and the result was cut.
C4_Witness ==
    /\ pc = "done"
    /\ config.retrieval_top_k >= 1
    /\ config.retrieval_cap >= 1
    /\ Len(selected) > config.retrieval_cap
    /\ \E i, j \in DOMAIN chunks :
          i < j /\ IsTopChunk(i) /\ FullScore(chunks[j]) = FullScore(chunks[i])

\* The example of the spec: 6 chunks indexed 0..5, top_k = 1, cap = 5 and a
\* threshold no chunk reaches.
IsExample ==
    /\ {chunks[i].index : i \in DOMAIN chunks} = 0..5
    /\ config.retrieval_top_k = 1
    /\ config.retrieval_cap = 5
    /\ \A i \in DOMAIN chunks : FullScore(chunks[i]) < config.retrieval_threshold

\* C5: for each of the top_k hits with index i, the chunks of the same
\* document with index i-1 (when i-1 >= 0) and i+1 are added to the selection
\* whenever they occur in the full ranked list, whatever their score; in the
\* example the result is exactly the top-1 chunk plus its existing immediate
\* neighbours.
C5_NeighborsAdded ==
    pc = "done" =>
        /\ \A h \in DOMAIN TopHits(scored, config.retrieval_top_k) :
              \A j \in DOMAIN scored :
                  LET hit == TopHits(scored, config.retrieval_top_k)[h][1]
                      nb == scored[j][1]
                  IN  (/\ nb.paper_id = hit.paper_id
                       /\ nb.index \in {hit.index - 1, hit.index + 1}) =>
                          /\ nb.chunk_id \in Keys(seeded)
                          /\ nb.chunk_id \in Keys(selected)
        /\ IsExample =>
              \E t \in DOMAIN chunks :
                  /\ IsTopChunk(t)
                  /\ ResultIds =
                        {chunks[i].chunk_id : i \in
                            {k \in DOMAIN chunks :
                                chunks[k].index \in
                                    {chunks[t].index - 1, chunks[t].index, chunks[t].index + 1}}}

\* The example ran, the top chunk has both neighbours, and one scores 0.
C5_Witness ==
    /\ pc = "done"
    /\ IsExample
    /\ Len(result) = 3
    /\ \E i \in DOMAIN result : result[i].score = 0

Window(k) ==
    {p \in DOMAIN tokens :
        \E i \in DOMAIN emitted[k].text : emitted[k].text[i] = tokens[p]}

\* C7: for a text of T >= 1 tokens and size > overlap >= 0, the windows start
\* at offsets 0, step, 2*step, ... (step = size - overlap), every token lies
\* in a window, every window but the last has exactly size tokens, the last
\* ends at token T, and the loop stops with the first window whose end
\* reaches T (idx grows towards T on every pass, so it terminates).
C7_WindowsCoverText ==
    (/\ cpc \in {"loop", "done"}
     /\ tokens # <<>>
     /\ chunker.chunk_overlap_tokens >= 0) =>
        LET size == chunker.chunk_size_tokens
            step == chunker.chunk_size_tokens - chunker.chunk_overlap_tokens
            T == Len(tokens)
            n == Len(emitted)
        IN  /\ \A k \in 1..n :
                  emitted[k].text =
                      SubSeq(tokens, (k - 1) * step + 1, Min((k - 1) * step + size, T))
            /\ \A k \in 1..(n - 1) :
                  /\ Len(emitted[k].text) = size
                  /\ (k - 1) * step + size < T
            /\ cpc = "loop" =>
                  /\ idx = n * step
                  /\ idx < T
                  /\ \A k \in 1..n : (k - 1) * step + size < T
            /\ cpc = "done" =>
                  /\ n >= 1
                  /\ (n - 1) * step + Len(emitted[n].text) = T
                  /\ (n - 1) * step + size >= T
                  /\ \A p \in 1..T : \E k \in 1..n : p \in Window(k)

\* Three or more windows that overlap, the last one shorter than size.
C7_Witness ==
    /\ cpc = "done"
    /\ chunker.chunk_overlap_tokens >= 1
    /\ Len(emitted) >= 3
    /\ Len(emitted[Len(emitted)].text) < chunker.chunk_size_tokens

\* C8: constructing a Chunker with overlap >= size fails with ValueError; no
\* chunker object results, and accepted parameters are stored as given.
C8_ConstructionFails ==
    /\ (cpc # "new" /\ args.chunk_overlap_tokens >= args.chunk_size_tokens) =>
          /\ chunker = [state |-> "ValueError"]
          /\ cpc = "raised"
          /\ emitted = <<>>
    /\ chunker.state = "ok" =>
          /\ chunker.chunk_size_tokens = args.chunk_size_tokens
          /\ chunker.chunk_overlap_tokens = args.chunk_overlap_tokens

\* Construction with overlap = size raised.
C8_Witness ==
    /\ cpc = "raised"
    /\ args.chunk_overlap_tokens = args.chunk_size_tokens

\* C9: for every Chunker the constructor accepts, whatever the sign of its
\* parameters, and every text, no token lies outside every window and each
\* pair of consecutive windows shares exactly `overlap` tokens.
C9_GaplessForAccepted ==
    cpc = "done" =>
        /\ \A p \in DOMAIN tokens : \E k \in DOMAIN emitted : p \in Window(k)
        /\ \A k \in 1..(Len(emitted) - 1) :
              Cardinality(Window(k) \cap Window(k + 1)) = chunker.chunk_overlap_tokens

\* C10: the k-th emitted chunk (k from 0) has index k and chunk_id
\* {paper_id}_chunk_{k zero-padded to 4 digits}; so the indices are 0..n-1
\* and the ids, a function of (paper_id, k), are pairwise distinct.
C10_SequentialIds ==
    cpc \in {"loop", "done"} =>
        /\ \A k \in DOMAIN emitted :
              /\ emitted[k].index = k - 1
              /\ emitted[k].paper_id = PaperId
              /\ emitted[k].chunk_id[1] = PaperId
              /\ \A i \in DOMAIN emitted[k].chunk_id[2] : emitted[k].chunk_id[2][i] \in 0..9
              /\ ParseInt(emitted[k].chunk_id[2]) = k - 1
              /\ Len(emitted[k].chunk_id[2]) >= 4
              /\ k - 1 < 10000 => Len(emitted[k].chunk_id[2]) = 4
        /\ \A j, k \in DOMAIN emitted :
              emitted[j].chunk_id = emitted[k].chunk_id => j = k

\* Eleven chunks were emitted: the last index has two digits.
C10_Witness ==
    /\ cpc = "done"
    /\ Len(emitted) >= 11
    /\ emitted[11].chunk_id = <<PaperId, <<0, 0, 1, 0>> >>

\* ---------------------------------------------- persistent index builder
Present(c) == {path \in DOMAIN c : c[path] # Absent}

ArtifactFile(dir, name) ==
    CASE name = "index" -> dir.index
      [] name = "metadata" -> dir.metadata
      [] OTHER -> dir.manifest

ArtifactSet == {ArtifactNames[i] : i \in DOMAIN ArtifactNames}

\* The artifacts the running (or last) build has written, and those an
\* earlier build left.
WrittenNow ==
    {name \in ArtifactSet :
        ArtifactFile(outdir, name).exists /\ ArtifactFile(outdir, name).by = run}

OlderArtifacts ==
    {name \in ArtifactSet :
        ArtifactFile(outdir, name).exists /\ ArtifactFile(outdir, name).by < run}

RaisedKind(kind) == ~build.error.none /\ build.error.val.kind = kind

\* C11: after a successful build over N discovered chunk files the metadata
\* file has exactly N rows, with ids 0..N-1 in line order and in the sorted
\* order of the chunk files; row i of the matrix added to the index is the
\* embedding of the text of metadata row i (normalised under cosine); the
\* index holds N vectors and the manifest records num_vectors = N.
C11_ArtifactsAgree ==
    bpc = "done" =>
        LET N == Cardinality(Present(corpus))
            lines == outdir.metadata.lines
            added == outdir.index.index.vectors
        IN  /\ WrittenNow = ArtifactSet
            /\ Len(lines) = N
            /\ \A i \in 1..N : lines[i].faiss_id = i - 1
            /\ {lines[i].file_path : i \in 1..N} = Present(corpus)
            /\ \A i, j \in 1..N :
                  i < j => LexLess(PathKey(lines[i].file_path),
                                   PathKey(lines[j].file_path))
            /\ \A i \in 1..N : lines[i].chunk_id = lines[i].file_path.stem
            /\ Len(build.vectors) = N
            /\ \A i \in 1..N :
                  build.vectors[i] = ApiEmbeddings(<<corpus[lines[i].file_path]>>)[1]
            /\ Len(added) = N
            /\ \A i \in 1..N :
                  added[i] = IF bargs.metric = "cosine"
                             THEN normalize_L2(build.vectors[i])
                             ELSE build.vectors[i]
            /\ outdir.manifest.num_vectors = N
            /\ outdir = Artifacts(corpus, bargs.metric, run)

\* A build over chunk files of two papers, embedded in more than one request,
\* with texts that differ, has succeeded.
C11_Witness ==
    /\ bpc = "done"
    /\ Cardinality(Present(corpus)) = MaxFiles + 1
    /\ Len(build.batches) >= 2
    /\ \E i, j \in DOMAIN build.texts : build.texts[i] # build.texts[j]
    /\ Len(outdir.metadata.lines) = MaxFiles + 1

C13_ApiFailureWritesNothing ==
    RaisedKind("APIError") => bpc = "failed" /\ WrittenNow = {}

\* The request for the middle one of three batches failed, in a second build
\* with overwrite over the first build's artifact set.
C13_Witness ==
    /\ RaisedKind("APIError")
    /\ Len(build.batches) = 3
    /\ build.idx = 1
    /\ bargs.overwrite
    /\ OlderArtifacts = ArtifactSet

\* C14: whenever no build is running, also after a build that stopped or
\* failed, the output directory holds the complete artifact set of one build
\* or no artifact at all.
C14_ArtifactSetAtomic ==
    bpc \in {"idle", "done", "failed", "stopped"} =>
        \/ Existing(outdir) = <<>>
        \/ /\ Existing(outdir) = ArtifactNames
           /\ outdir.index.by = outdir.metadata.by
           /\ outdir.metadata.by = outdir.manifest.by

\* ------------------------------------------- persistent-index retrieval
\* Nothing of the persistent index is loaded and no diagnostic is recorded.
Fresh(s) == s.faiss_index.none /\ s.faiss_rows_by_id.none /\ s.faiss_error.none

\* Something the readiness check looks for is missing.
SomethingMissing ==
    ~libs \/ ~outdir.index.exists \/ ~outdir.metadata.exists \/ ~api_key

\* The step is a call on the service.
ServiceCalled == ret' # ret \/ svc' # svc

ReturnedEmpty(call) == call.outcome = "returned" /\ call.value = <<>>

\* C15: when the readiness check of a service that has nothing loaded finds a
\* library, the index file, the metadata file or the credential missing, the
\* call (retrieve_top_faiss or load_chunks_for_candidates) does not raise: it
\* records a diagnostic in faiss_error and returns an empty result, and so
\* does every later call, whatever has been repaired in between.
C15_SoftReadinessFailure ==
    [][/\ (ServiceCalled /\ ret'.status # "not_checked" /\ Fresh(svc)
              /\ SomethingMissing) =>
              /\ ReturnedEmpty(ret')
              /\ ~svc'.faiss_error.none
              /\ svc'.faiss_index.none
       /\ (ServiceCalled /\ ~svc.faiss_error.none) =>
              /\ ReturnedEmpty(ret')
              /\ svc' = svc]_vars

\* After a failed readiness check everything has been repaired, and a later
\* call that ran the check has still returned an empty result.
C15_Witness ==
    /\ ~svc.faiss_error.none
    /\ libs /\ api_key /\ Existing(outdir) = ArtifactNames
    /\ ret.op = "load_chunks_for_candidates"
    /\ ret.candidates # <<>>
    /\ ret.status = "not_ready"
    /\ ReturnedEmpty(ret)

\* C16: when the embedding request of retrieve_top_faiss fails on a ready
\* service, the call returns an empty candidate list.
C16_ApiFailureIsSoft ==
    (ret.op = "retrieve_top_faiss" /\ ret.api = "failed") => ReturnedEmpty(ret)

\* The metadata row with vector id `id` that the service has loaded.
LoadedRows == {svc.faiss_rows_by_id.val[i][2] : i \in DOMAIN svc.faiss_rows_by_id.val}

HasRow(hit) == hit[2] >= 0 /\ \E row \in LoadedRows : row.faiss_id = hit[2]

RowOf(hit) == CHOOSE row \in LoadedRows : row.faiss_id = hit[2]

\* C17: for a ready service and limit > 0, retrieve_top_faiss returns at most
\* limit candidates, one for each search hit that has a non-negative vector
\* id and a metadata row, in the order of the search: the row's chunk_id, the
\* hit's score, and ranks 1..N with no gap where a hit was skipped.
C17_HitsJoinedInOrder ==
    (ret.op = "retrieve_top_faiss" /\ ret.api = "ok") =>
        LET kept == SelectSeq(ret.hits, HasRow)
        IN  /\ ret.limit > 0
            /\ ret.outcome = "returned"
            /\ Len(ret.hits) = ret.limit
            /\ Len(ret.value) <= ret.limit
            /\ Len(ret.value) = Len(kept)
            /\ \A i \in DOMAIN kept :
                  /\ ret.value[i].chunk_id = RowOf(kept[i]).chunk_id
                  /\ ret.value[i].score = kept[i][1]
                  /\ ret.value[i].rank = i

\* The search returned a hit without a metadata row, then a hit with one, then
\* a hit with a negative id.
C17_Witness ==
    /\ ret.op = "retrieve_top_faiss"
    /\ ret.api = "ok"
    /\ \E i, j, k \in DOMAIN ret.hits :
          /\ i < j /\ j < k
          /\ ret.hits[i][2] >= 0 /\ ~HasRow(ret.hits[i])
          /\ HasRow(ret.hits[j])
          /\ ret.hits[k][2] < 0
    /\ Len(ret.value) = MaxFiles

\* The chunk file with the chunk id `chunk_id`.
PathOfChunk(chunk_id) == CHOOSE path \in ChunkPaths : path.stem = chunk_id

\* C18: over any sequence of load_chunks_for_candidates calls on one service,
\* the chunk file of a chunk id is read at most once, and every call that
\* returns the chunk returns the text that read obtained.
C18_ReadAtMostOnce ==
    /\ \A path \in ChunkPaths : Len(disk_reads[path]) <= 1
    /\ (ret.op = "load_chunks_for_candidates" /\ ret.outcome = "returned") =>
          \A i \in DOMAIN ret.value :
              /\ ret.value[i][1] = ret.value[i][2].chunk_id
              /\ disk_reads[PathOfChunk(ret.value[i][1])] = <<ret.value[i][2].text>>

\* A call that read no file has returned two chunks, one of them with a text
\* its file does not hold any more.
C18_Witness ==
    /\ ret.op = "load_chunks_for_candidates"
    /\ ret.read = {}
    /\ Len(ret.value) = 2
    /\ \E i \in DOMAIN ret.value :
          ret.value[i][2].text # corpus[PathOfChunk(ret.value[i][1])]

\* The output directory holds the artifact set of a build with metric=cosine
\* over the chunk files, and retrieve_top_faiss has answered a query.
QueriedBuiltIndex ==
    /\ outdir = Artifacts(corpus, "cosine", 2)
    /\ ret.op = "retrieve_top_faiss"
    /\ ret.api = "ok"

\* C19 (as stated): after a build with metric=cosine, a query with the exact
\* text of any one of the chunks returns that chunk's id at rank 1.
C19_SelfRetrievalAnyChunk ==
    QueriedBuiltIndex =>
        \A path \in Present(corpus) :
            corpus[path] = ret.question =>
                ret.value # <<>> /\ ret.value[1].chunk_id = path.stem

\* No other chunk has an embedding of the same direction.
EmbeddingUnique(path) ==
    \A other \in Present(corpus) \ {path} :
        normalize_L2(ApiEmbeddings(<<corpus[other]>>)[1])
            # normalize_L2(ApiEmbeddings(<<corpus[path]>>)[1])

\* C19 (amended): after a build with metric=cosine, a query (limit >= 1) with
\* the exact text of a chunk whose embedding no other chunk shares returns
\* that chunk's id at rank 1.
C19_SelfRetrieval ==
    QueriedBuiltIndex =>
        \A path \in Present(corpus) :
            (corpus[path] = ret.question /\ EmbeddingUnique(path)) =>
                ret.value # <<>> /\ ret.value[1].chunk_id = path.stem

\* The query was the text of the last chunk file, which no other chunk
\* shares, and that chunk is at rank 1.
C19_Witness ==
    /\ QueriedBuiltIndex
    /\ \E path \in Present(corpus) :
          /\ path = ChunkPath("q", 0)
          /\ corpus[path] = ret.question
          /\ EmbeddingUnique(path)
          /\ ret.value[1].chunk_id = path.stem
          /\ ret.value[1].rank = 1

\* -------------------------------------------------------- EvidenceProposer
\* Candidate i goes before candidate j in the result: the higher score, and
\* of two equal scores the one earlier in the input.
GoesBefore(i, j) ==
    LET c == pargs.retrieval_candidates
    IN  c[i].score > c[j].score \/ (c[i].score = c[j].score /\ i < j)

\* The result lists the chunk ids of its length's best candidates, best first.
BestInOrder ==
    LET c == pargs.retrieval_candidates
    IN  \E f \in [DOMAIN proposed -> DOMAIN c] :
            /\ \A i \in DOMAIN proposed : proposed[i] = c[f[i]].chunk_id
            /\ \A i, j \in DOMAIN proposed : i < j => GoesBefore(f[i], f[j])
            /\ \A k \in DOMAIN c \ {f[i] : i \in DOMAIN proposed} :
                  \A i \in DOMAIN proposed : GoesBefore(f[i], k)

NoDuplicates(s) == \A i, j \in DOMAIN s : i # j => s[i] # s[j]

InputIds ==
    [i \in DOMAIN pargs.retrieval_candidates |-> pargs.retrieval_candidates[i].chunk_id]

\* C20 (as stated): for every candidate list and every max_candidates, propose
\* returns exactly min(max_candidates, len(candidates)) chunk ids, all from
\* the input, without duplicates, by descending score with ties in input order.
C20_ProposeAnyInput ==
    ppc = "done" =>
        /\ Len(proposed) = Min(pargs.max_candidates, Len(pargs.retrieval_candidates))
        /\ BestInOrder
        /\ NoDuplicates(proposed)

\* C20 (amended): for every candidate list and every max_candidates >= 0,
\* propose returns exactly min(max_candidates, len(candidates)) chunk ids, all
\* from the input, by descending score with ties in input order, and without
\* duplicates when the chunk ids of the candidates are distinct.
C20_Propose ==
    (ppc = "done" /\ pargs.max_candidates >= 0) =>
        /\ Len(proposed) = Min(pargs.max_candidates, Len(pargs.retrieval_candidates))
        /\ BestInOrder
        /\ NoDuplicates(InputIds) => NoDuplicates(proposed)

\* Candidates with distinct ids, not in score order and with two equal scores,
\* were cut to fewer than given.
C20_Witness ==
    /\ ppc = "done"
    /\ NoDuplicates(InputIds)
    /\ Len(proposed) = pargs.max_candidates
    /\ 2 <= Len(proposed)
    /\ Len(proposed) < Len(pargs.retrieval_candidates)
    /\ pargs.retrieval_candidates[1].score < pargs.retrieval_candidates[2].score
    /\ \E i, j \in DOMAIN pargs.retrieval_candidates :
          /\ i < j
          /\ pargs.retrieval_candidates[i].score = pargs.retrieval_candidates[j].score
          /\ proposed[1] = pargs.retrieval_candidates[i].chunk_id
          /\ proposed[2] = pargs.retrieval_candidates[j].chunk_id

\* ------------------------------------------- ChunkStore, PipelineService
\* C21: read_chunks returns the stored chunks of the document in ascending
\* numeric index order, the index of each being the number in the suffix of
\* its name, for any number of chunks of one document.
C21_ReadInIndexOrder ==
    pret.op = "read_chunks" =>
        /\ \A i \in DOMAIN pret.value :
              pret.value[i].index = ParseInt(pret.value[i].chunk_id[2])
        /\ \A i, j \in DOMAIN pret.value :
              i < j => pret.value[i].index < pret.value[j].index

\* C22: ingest_paper for a document whose chunks are already stored returns
\* the stored chunks and leaves the chunk files, the text cache and the
\* manifest as they were.
C22_ReingestIsNoOp ==
    (pret.op = "ingest_paper" /\ pret.stored # <<>>) =>
        /\ pret.outcome = "returned"
        /\ pret.value = pret.stored
        /\ pret.before = <<chunk_files, text_cache, chunk_manifest>>

\* C24: when the ingestion of one PDF fails in ingest_all, the other PDFs are
\* still ingested and the call returns with the failure recorded.
C24_BatchSurvivesFailure ==
    pret.op = "ingest_all" =>
        /\ pret.outcome = "returned"
        /\ pret.attempted = pret.pdfs

\* C29: read_chunks right after write_chunks(paper_id, chunks) returns exactly
\* the chunks written (ids, indices, texts, and nothing more), whatever was
\* written to the document before.
C29_ReadReturnsLastWrite ==
    (pret.op = "read_chunks" /\ ~pret.last_write.none) =>
        pret.value = pret.last_write.val

\* --------------------------------------------- InMemoryVectorIndex alone
\* The pairs are chunks of the index with their scores against the query, in
\* non-increasing score order, equal scores in the order of adding.
RankedPairs ==
    /\ \A i \in DOMAIN found.value :
          \E k \in DOMAIN index_rows :
              /\ found.value[i][1] = index_rows[k][1]
              /\ found.value[i][2] = cosine(embed(found.query), index_rows[k][2])
    /\ \A i, j \in DOMAIN found.value :
          i < j => \/ found.value[i][2] > found.value[j][2]
                   \/ /\ found.value[i][2] = found.value[j][2]
                      /\ found.value[i][1].index < found.value[j][1].index

\* C23 (as stated): search(query, limit) returns at most limit pairs, in
\* non-increasing score order, chunks of equal score in the order in which
\* they were added.
C23_SearchAnyLimit ==
    found.op = "search" => Len(found.value) <= found.limit /\ RankedPairs

\* C23 (amended): for limit >= 0, search(query, limit) returns at most limit
\* pairs, in non-increasing score order, chunks of equal score in the order in
\* which they were added.
C23_Search ==
    (found.op = "search" /\ found.limit >= 0) =>
        Len(found.value) <= found.limit /\ RankedPairs

\* The index holds more rows than the limit, the rows were not added in score
\* order, and two returned chunks have the same score.
C23_Witness ==
    /\ found.op = "search"
    /\ found.limit >= 2
    /\ Len(found.value) = found.limit
    /\ found.limit < Len(index_rows)
    /\ found.value[1][1].index > 0
    /\ \E i, j \in DOMAIN found.value : i < j /\ found.value[i][2] = found.value[j][2]

AllHandlesSet(s) ==
    /\ ~s.faiss_index.none
    /\ ~s.faiss.none
    /\ ~s.np.none
    /\ ~s.openai_client.none
    /\ ~s.faiss_rows_by_id.none
    /\ ~s.faiss_rows_by_chunk_id.none

Handles(s) ==
    <<s.faiss_index, s.faiss, s.np, s.openai_client, s.faiss_rows_by_id,
      s.faiss_rows_by_chunk_id, s.faiss_metric>>

\* C26: in a sequence of retrieve_top_faiss and load_chunks_for_candidates
\* calls on one service, a call whose readiness check returns True leaves the
\* index handle, the library handles, the client and both metadata maps set,
\* and once they are set no later call reads the index file again or assigns
\* any of them.
C26_LoadedOnce ==
    [][ServiceCalled =>
          /\ ret'.status = "ready" => AllHandlesSet(svc')
          /\ AllHandlesSet(svc) =>
                /\ ~ret'.loaded
                /\ ~ret'.probed
                /\ Handles(svc') = Handles(svc)]_vars

\* A call found the service loaded and read nothing, although the artifacts
\* on disk have been replaced since the load.
C26_Witness ==
    /\ ret.op = "retrieve_top_faiss"
    /\ ret.status = "ready"
    /\ ret.api = "ok"
    /\ ~ret.loaded
    /\ AllHandlesSet(svc)
    /\ svc.faiss_index.val # outdir.index.index

\* C27: once faiss_error is set it is never cleared, and every later
\* retrieve_top_faiss and load_chunks_for_candidates call returns an empty
\* result without probing again, whatever has been supplied in the meantime.
C27_FailurePermanent ==
    [][~svc.faiss_error.none =>
          /\ svc'.faiss_error = svc.faiss_error
          /\ ~AllHandlesSet(svc')
          /\ ServiceCalled =>
                /\ ReturnedEmpty(ret')
                /\ ~ret'.probed
                /\ ~ret'.loaded]_vars

\* After a failed readiness check everything has been supplied, and a later
\* retrieve_top_faiss call with limit > 0 has returned an empty list without
\* probing.
C27_Witness ==
    /\ ~svc.faiss_error.none
    /\ libs /\ api_key /\ Existing(outdir) = ArtifactNames
    /\ ret.op = "retrieve_top_faiss"
    /\ ret.limit > 0
    /\ ret.status = "not_ready"
    /\ ~ret.probed
    /\ ReturnedEmpty(ret)

\* ------------------------------ concurrent callers of one RetrievalService
\* C28: with two concurrent callers on one fresh service, the index is
\* initialised at most once, and no caller goes on after a readiness check
\* that returned True while a field it then uses is unset.
C28_InitialisedOnceAndSafe ==
    /\ inits <= 1
    /\ \A t \in Callers :
          caller[t].pc = "proceed" =>
              \A i \in DOMAIN FieldsUsed(svc, caller[t].op) :
                  ~FieldsUsed(svc, caller[t].op)[i].none

\* -------------------------------------------------- QuestionIdAllocator
\* C30: over any sequence of next_id calls on allocators sharing one data
\* directory (one instance, re-created instances, several live instances),
\* every id returned is greater than every id returned before it, and the
\* counter file holds the number of the last id returned.
C30_IdsNeverRepeat ==
    /\ \A i, j \in DOMAIN issued :
          i < j => parse_id(issued[i]) < parse_id(issued[j])
    /\ issued # <<>> =>
          /\ data_dir.counter.exists
          /\ data_dir.counter.raw = Digits(parse_id(issued[Len(issued)]))

====
